---- MODULE Spec2Model ----
(***************************************************************************)
(* Model of src/src/hooks/useReservoirModel.ts: the closed-form scoring    *)
(* function predictTemperature, the rule-adjusted ranking                  *)
(* calculateFeatureImportance, and the React state holder                  *)
(* useReservoirModel with its delayed generateForecast, and of the         *)
(* forecast points of src/src/components/ForecastChart.tsx.                *)
(*                                                                         *)
(* Number representation.                                                  *)
(*   - Fields of ReservoirInputs and ScenarioAdjustments, as they are      *)
(*     typed or passed, are decimal numbers of at most two decimals: they  *)
(*     are held as integers in hundredths of their unit (18.5 degC is      *)
(*     1850, 5 percent is 500), NaN as a distinguished integer.            *)
(*   - Every value the code computes is a JavaScript number, an IEEE 754   *)
(*     binary64: the arithmetic below adds, multiplies, divides, compares  *)
(*     and formats binary64 numbers bit for bit, round to nearest, ties to *)
(*     even. Hundredths(n) is the binary64 a field n stands for.           *)
(*   - The returned one-decimal values are integers in tenths, mae and r2  *)
(*     integers in hundredths, confidence and importance plain integers.   *)
(***************************************************************************)
EXTENDS Integers, Sequences, FiniteSets, TLC

VARIABLES
    inputs,              \* useState<ReservoirInputs>: the state, every update made so far applied
    adjustments,         \* useState<ScenarioAdjustments>
    activeHorizon,       \* useState<1|3|7>
    hasForecast,         \* useState(false)
    isGenerating,        \* useState(false)
    forecastInputs,      \* useState<ReservoirInputs|null>
    forecastAdjustments, \* useState<ScenarioAdjustments|null>
    bound,               \* the constants inputs and adjustments of the last render
    boundHorizon,        \* the constant activeHorizon of the last render
    memoDeps,            \* the dependencies [forecastInputs, forecastAdjustments] both useMemo hold
    predictions,         \* useMemo over the forecast snapshot, as of the last render
    featureImportance,   \* useMemo over the forecast snapshot, as of the last render
    depsChanged,         \* forecastInputs or forecastAdjustments was set since the last render
    renderDue,           \* state was set since the last render
    timers,              \* pending setTimeout callbacks, each with its closure
    day,                 \* new Date().getDay() of the wall clock
    midnights,           \* history: midnights passed since the page was loaded
    captured,            \* history: the pairs captured by generateForecast whose request is pending or whose forecast is the snapshot or is shown
    lastRequest,         \* history: the pair of the most recent generateForecast, and whether a request with other inputs was pending then
    fired,               \* history: some timeout callback has run
    args,                \* arguments of a direct call of one of the two pure functions
    ret                  \* what that call returned

vars == <<inputs, adjustments, activeHorizon, hasForecast, isGenerating,
          forecastInputs, forecastAdjustments, bound, boundHorizon, memoDeps,
          predictions,
          featureImportance,
          depsChanged, renderDue, timers, day, midnights, captured, lastRequest, fired,
          args, ret>>

hookVars == <<inputs, adjustments, activeHorizon, hasForecast, isGenerating,
              forecastInputs, forecastAdjustments, bound, boundHorizon, memoDeps,
          predictions,
              featureImportance,
              depsChanged, renderDue, timers, captured, lastRequest, fired>>

fnVars == <<args, ret>>


\* ------------------------------------------------------------------------
\* Numbers

\* the JavaScript NaN among the integers that stand for decimal fields and results
NaN == -2000000000

\* null of forecastInputs, forecastAdjustments, predictions, featureImportance
Null == [null |-> TRUE]

IsNaN(x) == x = NaN

\* ------------------------------------------------------------------------
\* IEEE 754 binary64 numbers, as JavaScript's number type
\*
\* a number is s * m * 2^e: s is 1 or -1, m a natural number with 2^52 <= m < 2^53
\* held as four limbs of 14 bits, lowest first; m = 0 is zero (one zero, unsigned);
\* s = 0 is NaN. Infinities and subnormal numbers are not represented.
Base == 16384
LimbBits == 14

FNaN  == [s |-> 0, e |-> 0, m |-> <<0, 0, 0, 0>>]
FZero == [s |-> 1, e |-> 0, m |-> <<0, 0, 0, 0>>]
IsFNaN(x)  == x.s = 0
IsFZero(x) == x.s # 0 /\ x.m[4] = 0

\* 2^k for k in 0..14
Pow2(k) == <<1, 2, 4, 8, 16, 32, 64, 128, 256, 512, 1024, 2048, 4096, 8192, 16384>>[k + 1]

\* the number of bits of a limb
LimbLen(x) ==
    IF x >= 128
    THEN (IF x >= 2048 THEN (IF x >= 8192 THEN 14 ELSE IF x >= 4096 THEN 13 ELSE 12)
          ELSE IF x >= 512 THEN (IF x >= 1024 THEN 11 ELSE 10)
          ELSE IF x >= 256 THEN 9 ELSE 8)
    ELSE (IF x >= 8 THEN (IF x >= 32 THEN (IF x >= 64 THEN 7 ELSE 6) ELSE IF x >= 16 THEN 5 ELSE 4)
          ELSE IF x >= 2 THEN (IF x >= 4 THEN 3 ELSE 2)
          ELSE x)

\* limb i of a natural number given by its limbs, 0 beyond them
Limb(a, i) == IF 1 <= i /\ i <= Len(a) THEN a[i] ELSE 0

\* the highest limb that is not 0 of a natural number of at most eight limbs, 1 if none is
TopLimb(a) ==
    IF Limb(a, 8) # 0 THEN 8
    ELSE IF Limb(a, 7) # 0 THEN 7
    ELSE IF Limb(a, 6) # 0 THEN 6
    ELSE IF Limb(a, 5) # 0 THEN 5
    ELSE IF Limb(a, 4) # 0 THEN 4
    ELSE IF Limb(a, 3) # 0 THEN 3
    ELSE IF Limb(a, 2) # 0 THEN 2
    ELSE 1

\* the number of bits of a natural number whose highest limb that is not 0 is limb t
BitLenFrom(a, t) == LimbBits * (t - 1) + LimbLen(a[t])

\* the number of bits of a natural number of at most eight limbs
BitLen(a) == BitLenFrom(a, TopLimb(a))

\* limb i of a * p * Base^q and of floor(a / (lo * Base^q)), where lo * hi = Base
ShLLimb(a, q, p, i) == ((Limb(a, i - q) * p) % Base) + ((Limb(a, i - q - 1) * p) \div Base)
ShRLimb(a, q, lo, hi, i) == (Limb(a, i + q) \div lo) + ((Limb(a, i + q + 1) % lo) * hi)

ShLBy(a, q, p) ==
    <<ShLLimb(a, q, p, 1), ShLLimb(a, q, p, 2), ShLLimb(a, q, p, 3), ShLLimb(a, q, p, 4)>>

ShRBy(a, q, lo, hi) ==
    <<ShRLimb(a, q, lo, hi, 1), ShRLimb(a, q, lo, hi, 2),
      ShRLimb(a, q, lo, hi, 3), ShRLimb(a, q, lo, hi, 4)>>

\* the four lowest limbs of a * 2^k
ShL(a, k) == ShLBy(a, k \div LimbBits, Pow2(k % LimbBits))

\* the four lowest limbs of floor(a / 2^k)
ShR(a, k) == ShRBy(a, k \div LimbBits, Pow2(k % LimbBits), Pow2(LimbBits - (k % LimbBits)))

\* bit k (from 0) of a
Bit(a, k) == (Limb(a, (k \div LimbBits) + 1) \div Pow2(k % LimbBits)) % 2

\* the k lowest bits of a are all 0
LowBitsZero(a, k) ==
    /\ \A i \in 1..(k \div LimbBits) : Limb(a, i) = 0
    /\ Limb(a, (k \div LimbBits) + 1) % Pow2(k % LimbBits) = 0

\* a mantissa of 53 bits plus one unit in the last place; 2^53 shows as limb 4 = 2048
Successor(m) ==
    IF m[1] < Base - 1 THEN <<m[1] + 1, m[2], m[3], m[4]>>
    ELSE IF m[2] < Base - 1 THEN <<0, m[2] + 1, m[3], m[4]>>
    ELSE IF m[3] < Base - 1 THEN <<0, 0, m[3] + 1, m[4]>>
    ELSE <<0, 0, 0, m[4] + 1>>

\* s * r * 2^e for a mantissa r that a rounding has raised
Carried(s, r, e) ==
    IF r[4] = 2048 THEN [s |-> s, e |-> e + 1, m |-> <<0, 0, 0, 1024>>]
    ELSE [s |-> s, e |-> e, m |-> r]

\* s * m * 2^e with m of 53 bits raised by one unit in the last place
RoundUp(s, m, e) == Carried(s, Successor(m), e)

\* round to nearest, ties to even: guard is the first bit dropped, rest says that
\* a later dropped bit is 1
Rounded(s, m, e, guard, rest) ==
    IF guard /\ (rest \/ m[1] % 2 = 1) THEN RoundUp(s, m, e) ELSE [s |-> s, e |-> e, m |-> m]

\* the number nearest to s * a * 2^e for a natural number a of len bits
PackLen(s, a, e, sticky, len) ==
    IF len = 0 THEN FZero
    ELSE IF len <= 53 THEN [s |-> s, e |-> e - (53 - len), m |-> ShL(a, 53 - len)]
    ELSE Rounded(s, ShR(a, len - 53), e + (len - 53), Bit(a, len - 54) = 1,
                 sticky \/ ~LowBitsZero(a, len - 54))

\* the number nearest to s * a * 2^e, a a natural number of at most eight limbs;
\* sticky says that the exact value has a nonzero part below the last bit of a
Pack(s, a, e, sticky) == PackLen(s, a, e, sticky, BitLen(a))

\* the number a natural number n below 2^31 is, signed by s
FromNat(s, n) == Pack(s, << n % Base, (n \div Base) % Base, n \div (Base * Base) >>, 0, FALSE)

\* an integer below 2^31 in size
FromInt(n) ==
    IF n = 0 THEN FZero ELSE IF n > 0 THEN FromNat(1, n) ELSE FromNat(-1, -n)

FNeg(x) == IF IsFZero(x) THEN x ELSE [x EXCEPT !.s = -x.s]
FAbs(x) == IF x.s = -1 THEN [x EXCEPT !.s = 1] ELSE x

\* a + b and a - b (a >= b) for natural numbers of five limbs; the sum has six
AddLimbs(a, b) ==
    LET t1 == a[1] + b[1]
        t2 == a[2] + b[2] + t1 \div Base
        t3 == a[3] + b[3] + t2 \div Base
        t4 == a[4] + b[4] + t3 \div Base
        t5 == a[5] + b[5] + t4 \div Base
    IN  <<t1 % Base, t2 % Base, t3 % Base, t4 % Base, t5 % Base, t5 \div Base>>

SubLimbs(a, b) ==
    LET t1 == a[1] - b[1]
        t2 == a[2] - b[2] + t1 \div Base
        t3 == a[3] - b[3] + t2 \div Base
        t4 == a[4] - b[4] + t3 \div Base
        t5 == a[5] - b[5] + t4 \div Base
    IN  <<t1 % Base, t2 % Base, t3 % Base, t4 % Base, t5 % Base>>

\* -1, 0, 1 as a is below, equal to, above b (limbs n down to 1)
RECURSIVE CmpLimbs(_, _, _)
CmpLimbs(a, b, n) ==
    IF n = 0 THEN 0
    ELSE IF a[n] # b[n] THEN (IF a[n] < b[n] THEN -1 ELSE 1)
    ELSE CmpLimbs(a, b, n - 1)

\* a mantissa with one more limb below
Widened(m) == <<0, m[1], m[2], m[3], m[4]>>

\* the lowest limb with a 1 kept in its last bit for the bits an alignment has dropped
Jammed(limb, exact) == IF exact THEN limb ELSE limb + 1 - (limb % 2)

\* the five limbs of floor(a / (lo * Base^q)), the dropped bits kept as a 1 in the last bit
AlignedBy(a, q, lo, hi, exact) ==
    << Jammed(ShRLimb(a, q, lo, hi, 1), exact), ShRLimb(a, q, lo, hi, 2),
       ShRLimb(a, q, lo, hi, 3), ShRLimb(a, q, lo, hi, 4), ShRLimb(a, q, lo, hi, 5) >>

\* a widened mantissa moved d bits down
Aligned(a, d) ==
    AlignedBy(a, d \div LimbBits, Pow2(d % LimbBits), Pow2(LimbBits - (d % LimbBits)),
              LowBitsZero(a, d))

\* s * a * 2^e + t * b * 2^e, c saying how a compares with b when the signs differ
SignedSum(s, a, t, b, e, c) ==
    IF c = 0 THEN FZero
    ELSE Pack(IF c > 0 THEN s ELSE t,
              IF s = t THEN AddLimbs(a, b) ELSE IF c > 0 THEN SubLimbs(a, b) ELSE SubLimbs(b, a),
              e, FALSE)

AddMagnitudes(s, a, t, b, e) == SignedSum(s, a, t, b, e, IF s = t THEN 1 ELSE CmpLimbs(a, b, 5))

\* x + y for numbers that are not zero, x with the exponent not below that of y:
\* both mantissas get one more limb below, the bits y loses in the alignment
\* are kept as a 1 in its last bit
AddAligned(x, y) ==
    IF x.e - y.e > 66 THEN x
    ELSE AddMagnitudes(x.s, Widened(x.m), y.s, Aligned(Widened(y.m), x.e - y.e), x.e - LimbBits)

FAdd(x, y) ==
    IF IsFNaN(x) \/ IsFNaN(y) THEN FNaN
    ELSE IF IsFZero(x) THEN y
    ELSE IF IsFZero(y) THEN x
    ELSE AddAligned(IF x.e >= y.e THEN x ELSE y, IF x.e >= y.e THEN y ELSE x)

FSub(x, y) == FAdd(x, FNeg(y))

\* a * b for natural numbers of four limbs, in eight limbs
Product(a, b) ==
    LET t1 == a[1] * b[1]
        t2 == a[1] * b[2] + a[2] * b[1] + t1 \div Base
        t3 == a[1] * b[3] + a[2] * b[2] + a[3] * b[1] + t2 \div Base
        t4 == a[1] * b[4] + a[2] * b[3] + a[3] * b[2] + a[4] * b[1] + t3 \div Base
        t5 == a[2] * b[4] + a[3] * b[3] + a[4] * b[2] + t4 \div Base
        t6 == a[3] * b[4] + a[4] * b[3] + t5 \div Base
        t7 == a[4] * b[4] + t6 \div Base
    IN  <<t1 % Base, t2 % Base, t3 % Base, t4 % Base, t5 % Base, t6 % Base, t7 % Base,
          t7 \div Base>>

FMul(x, y) ==
    IF IsFNaN(x) \/ IsFNaN(y) THEN FNaN
    ELSE IF IsFZero(x) \/ IsFZero(y) THEN FZero
    ELSE Pack(x.s * y.s, Product(x.m, y.m), x.e + y.e, FALSE)

\* floor(a * Base / d) for a natural number a of four limbs and 0 < d < 4096, in five
\* limbs, then the remainder
Quotient(a, d) ==
    LET t4 == a[4]
        t3 == (t4 % d) * Base + a[3]
        t2 == (t3 % d) * Base + a[2]
        t1 == (t2 % d) * Base + a[1]
        t0 == (t1 % d) * Base
    IN  <<t0 \div d, t1 \div d, t2 \div d, t3 \div d, t4 \div d, t0 % d>>

\* s * q * 2^e for a quotient q with its remainder
PackQuotient(s, q, e) == Pack(s, <<q[1], q[2], q[3], q[4], q[5]>>, e, q[6] # 0)

\* x / d for an integer 0 < d < 4096
FDivInt(x, d) ==
    IF IsFNaN(x) THEN FNaN
    ELSE IF IsFZero(x) THEN FZero
    ELSE PackQuotient(x.s, Quotient(x.m, d), x.e - LimbBits)

\* 0 for a zero, else the sign
Sign(x) == IF IsFZero(x) THEN 0 ELSE x.s

\* -1, 0, 1 as x is below, equal to, above y, for numbers of signs sx and sy
CmpSigned(x, sx, y, sy) ==
    IF sx # sy THEN (IF sx < sy THEN -1 ELSE 1)
    ELSE IF sx = 0 THEN 0
    ELSE IF x.e # y.e THEN (IF x.e < y.e THEN -sx ELSE sx)
    ELSE sx * CmpLimbs(x.m, y.m, 4)

\* -1, 0, 1 as x is below, equal to, above y, for numbers
FCmp(x, y) == CmpSigned(x, Sign(x), y, Sign(y))

\* x < y and x > y as JavaScript compares: false when an operand is NaN
FLt(x, y) == ~IsFNaN(x) /\ ~IsFNaN(y) /\ FCmp(x, y) < 0
FGt(x, y) == ~IsFNaN(x) /\ ~IsFNaN(y) /\ FCmp(x, y) > 0

\* m * k for a mantissa m and 0 < k < 2^15, in five limbs
Scaled(a, k) ==
    LET t1 == a[1] * k
        t2 == a[2] * k + t1 \div Base
        t3 == a[3] * k + t2 \div Base
        t4 == a[4] * k + t3 \div Base
    IN  <<t1 % Base, t2 % Base, t3 % Base, t4 % Base, t4 \div Base>>

\* the natural number below 2^31 of the limbs u
NatOf(u) == u[1] + Base * u[2] + Base * Base * u[3]

\* floor((n + 1) / 2), and whether n / 2 lies half way between two integers
HalfOf(n, exact) == [n |-> (n + 1) \div 2, tie |-> n % 2 = 1 /\ exact]

\* floor(t / 2^(sh + 1) + 1/2), and whether t / 2^(sh + 1) + 1/2 is an integer
HalfUp(t, sh) ==
    IF sh >= 70 THEN [n |-> 0, tie |-> FALSE]
    ELSE HalfOf(NatOf(ShR(t, sh)), LowBitsZero(t, sh))

\* floor(|x| * k + 1/2) for a number x, 0 < k < 2^15, |x| * k below 2^30, and whether
\* |x| * k + 1/2 is an integer; m * k has five limbs, -x.e - 1 of its bits are dropped
ScaledHalfUp(x, k) == HalfUp(Scaled(x.m, k), -x.e - 1)

\* Number(x.toFixed(1)) * 10 for k = 10, Number(x.toFixed(2)) * 100 for k = 100:
\* the integer nearest to the exact value of |x| * k, the larger one of two, signed
ToFixed(x, k) ==
    IF IsFNaN(x) THEN NaN
    ELSE IF IsFZero(x) THEN 0
    ELSE x.s * ScaledHalfUp(x, k).n

\* Number(x.toFixed(1)), in tenths
ToFixed1(x) == ToFixed(x, 10)

\* Number(x.toFixed(2)), in hundredths
ToFixed2(x) == ToFixed(x, 100)

\* the integer a number with an integer value is
IntegerOf(x) == ToFixed(x, 1)

\* floor(s * v + 0.5) for the half-up rounding r of v
FloorOfHalfUp(s, r) == FromInt(IF s = 1 THEN r.n ELSE IF r.tie THEN -(r.n - 1) ELSE -r.n)

\* Math.round(x): floor(x + 0.5), a number again
MathRound(x) ==
    IF IsFNaN(x) THEN FNaN
    ELSE IF IsFZero(x) THEN FZero
    ELSE FloorOfHalfUp(x.s, ScaledHalfUp(x, 1))

\* the number a decimal of two decimals parses to: the binary64 nearest to n / 100
Hundredths(n) == IF IsNaN(n) THEN FNaN ELSE FDivInt(FromInt(n), 100)

\* the number a decimal of one decimal parses to: the binary64 nearest to n / 10
Tenths(n) == IF IsNaN(n) THEN FNaN ELSE FDivInt(FromInt(n), 10)

\* a clamp whose comparisons order NaN below every number
ClampSwallowingNaN(lo, hi, x) ==
    IF FGt(x, hi) THEN hi
    ELSE IF IsFNaN(x) \/ FLt(x, lo) THEN lo
    ELSE x

\* Math.max(lo, Math.min(hi, x)): NaN survives both
Clamp(lo, hi, x) ==
    IF IsFNaN(x) THEN FNaN
    ELSE IF FGt(x, hi) THEN hi
    ELSE IF FLt(x, lo) THEN lo
    ELSE x

\* ------------------------------------------------------------------------
\* predictTemperature

Horizons == {1, 3, 7}

\* the literals 1, 5, -5, 35 and 100
One == FromInt(1)
Hundred == FromInt(100)
Five == FromInt(5)
MinusFive == FromInt(-5)
ThirtyFive == FromInt(35)

\* const coefficients = {intercept: 0.0, tempOut: 0.65, ...}
coefficients ==
    [ intercept |-> FZero,
      tempOut   |-> Hundredths(65),
      tempIn    |-> Hundredths(15),
      airTemp   |-> Hundredths(12),
      solar     |-> Hundredths(8),
      discharge |-> Hundredths(-3),
      storage   |-> Hundredths(2),
      wind      |-> Hundredths(-4),
      humidity  |-> Hundredths(2),
      seasonal  |-> Hundredths(8) ]

\* horizonFactors with the r2 of the 3-day entry mistyped (0.98 for 0.89)
horizonFactorsMistyped(horizon) ==
    CASE horizon = 1 -> [decay |-> 100, uncertainty |-> 50,  r2 |-> 94]
      [] horizon = 3 -> [decay |-> 85,  uncertainty |-> 120, r2 |-> 98]
      [] horizon = 7 -> [decay |-> 70,  uncertainty |-> 200, r2 |-> 85]

\* horizonFactors[horizon]: the literals of decay, uncertainty and r2, in hundredths
horizonFactors(horizon) ==
    CASE horizon = 1 -> [decay |-> 100, uncertainty |-> 50,  r2 |-> 94]
      [] horizon = 3 -> [decay |-> 85,  uncertainty |-> 120, r2 |-> 89]
      [] horizon = 7 -> [decay |-> 70,  uncertainty |-> 200, r2 |-> 85]

\* {...inputs}: every field of the inputs object as the number it is
spreadInputs(i) == [ k \in DOMAIN i |-> Hundredths(i[k]) ]

\* the three adjustments as the numbers they are
adjustmentNumbers(a) == [ k \in DOMAIN a |-> Hundredths(a[k]) ]

\* the spread inputs with discharge, airTemp and storage overwritten, the "1 +" of the
\* two percentage factors forgotten
overwrittenNoUnit(n, c) ==
    [ tempOut   |-> n.tempOut,
      tempIn    |-> n.tempIn,
      discharge |-> FMul(n.discharge, FDivInt(c.dischargeChange, 100)),
      storage   |-> FMul(n.storage, FDivInt(c.storageChange, 100)),
      airTemp   |-> FAdd(n.airTemp, c.airTempChange),
      solarRad  |-> n.solarRad,
      windSpeed |-> n.windSpeed,
      humidity  |-> n.humidity ]

\* the spread inputs n with discharge, airTemp and storage overwritten from the
\* adjustments c
overwritten(n, c) ==
    [ tempOut   |-> n.tempOut,
      tempIn    |-> n.tempIn,
      discharge |-> FMul(n.discharge, FAdd(One, FDivInt(c.dischargeChange, 100))),
      storage   |-> FMul(n.storage, FAdd(One, FDivInt(c.storageChange, 100))),
      airTemp   |-> FAdd(n.airTemp, c.airTempChange),
      solarRad  |-> n.solarRad,
      windSpeed |-> n.windSpeed,
      humidity  |-> n.humidity ]

\* adjustedInputs with the "1 +" of the two percentage factors forgotten
adjustedInputsNoUnit(i, a) == overwrittenNoUnit(spreadInputs(i), adjustmentNumbers(a))

\* const adjustedInputs = {...inputs,
\*   discharge: inputs.discharge * (1 + adjustments.dischargeChange / 100),
\*   airTemp: inputs.airTemp + adjustments.airTempChange,
\*   storage: inputs.storage * (1 + adjustments.storageChange / 100)}
adjustedInputs(i, a) == overwritten(spreadInputs(i), adjustmentNumbers(a))

\* the seasonal factor with the day-of-week index divided by 7 before the division
\* by 365: Math.sin(2 * Math.PI * (getDay() / 7 / 365)) * 2
seasonalFactorOverSeven(d) ==
    << FZero,
       [s |-> 1, e |-> -60, m |-> <<14133, 3067, 5132, 1289>>],
       [s |-> 1, e |-> -59, m |-> <<7697, 5127, 5068, 1289>>],
       [s |-> 1, e |-> -59, m |-> <<9035, 12846, 15634, 1933>>],
       [s |-> 1, e |-> -58, m |-> <<14498, 13384, 4812, 1289>>],
       [s |-> 1, e |-> -58, m |-> <<5775, 8113, 9872, 1611>>],
       [s |-> 1, e |-> -58, m |-> <<2064, 8054, 14772, 1933>> ] >>[d + 1]

\* Math.sin(2 * Math.PI * (getDay() / 365)) * 2 for getDay() = 0..6:
\* 0, 0.03442671231166937, 0.06884322324549148, 0.10323933444650753,
\* 0.13760485360463973, 0.17192959747489295, 0.2062033948948697
seasonalFactor(d) ==
    << FZero,
       [s |-> 1, e |-> -57, m |-> <<3886, 7142, 1548, 1128>>],
       [s |-> 1, e |-> -56, m |-> <<16181, 399, 15194, 1127>>],
       [s |-> 1, e |-> -56, m |-> <<2645, 13423, 7753, 1691>>],
       [s |-> 1, e |-> -55, m |-> <<7065, 13313, 4242, 1127>>],
       [s |-> 1, e |-> -55, m |-> <<16122, 15548, 7327, 1408>>],
       [s |-> 1, e |-> -55, m |-> <<9683, 2763, 3575, 1689>> ] >>[d + 1]

\* some field that enters the weighted sum is NaN
AnyNaN(e) ==
    \/ IsFNaN(e.tempOut) \/ IsFNaN(e.tempIn) \/ IsFNaN(e.discharge) \/ IsFNaN(e.storage)
    \/ IsFNaN(e.airTemp) \/ IsFNaN(e.solarRad) \/ IsFNaN(e.windSpeed) \/ IsFNaN(e.humidity)

\* "Normalized features" and "Base prediction" for coefficients c, decay factor decay
\* and seasonal factor seasonal: the sum is taken from left to right, each product
\* from left to right, every operation rounded to a binary64
weightedSum(c, e, decay, seasonal) ==
    FAdd(FAdd(FAdd(FAdd(FAdd(FAdd(FAdd(FAdd(FAdd(
        c.intercept,
        FMul(FMul(c.tempOut, e.tempOut), decay)),
        FMul(c.tempIn, e.tempIn)),
        FMul(c.airTemp, e.airTemp)),
        FMul(FMul(c.solar, FDivInt(e.solarRad, 800)), Five)),
        FMul(FMul(c.discharge, FDivInt(e.discharge, 200)), FromInt(3))),
        FMul(FMul(c.storage, FDivInt(e.storage, 500)), FromInt(2))),
        FMul(FMul(c.wind, FDivInt(e.windSpeed, 10)), FromInt(2))),
        FMul(c.humidity, FDivInt(e.humidity, 100))),
        FMul(c.seasonal, seasonal))

\* the weighted sum with the sign of the wind term lost
basePredictionWindAdded(e, horizon, d) ==
    weightedSum([coefficients EXCEPT !.wind = FNeg(@)], e,
                Hundredths(horizonFactors(horizon).decay), seasonalFactor(d))

\* let predicted = coefficients.intercept + ... + coefficients.seasonal * seasonalFactor
basePrediction(e, horizon, d) ==
    weightedSum(coefficients, e, Hundredths(horizonFactors(horizon).decay), seasonalFactor(d))

\* x >= y as JavaScript compares: false when an operand is NaN
FGe(x, y) == ~IsFNaN(x) /\ ~IsFNaN(y) /\ FCmp(x, y) >= 0

\* the air-temperature correction by the difference, with inclusive comparisons
airTempStepInclusive(airTempDiff, horizon) ==
    IF FGe(airTempDiff, Five) THEN FMul(Hundredths(15), FromInt(horizon))
    ELSE IF FGe(MinusFive, airTempDiff) THEN FNeg(FMul(Hundredths(10), FromInt(horizon)))
    ELSE FZero

\* if (airTempDiff > 5) predicted += 0.15 * horizon;
\* else if (airTempDiff < -5) predicted -= 0.1 * horizon
airTempStep(airTempDiff, horizon) ==
    IF FGt(airTempDiff, Five) THEN FMul(Hundredths(15), FromInt(horizon))
    ELSE IF FLt(airTempDiff, MinusFive) THEN FNeg(FMul(Hundredths(10), FromInt(horizon)))
    ELSE FZero

\* the air-temperature correction with inclusive comparisons
airTempCorrectionInclusive(e, horizon) ==
    airTempStepInclusive(FSub(e.airTemp, e.tempOut), horizon)

\* "Non-linear interactions": what each of the three if-statements adds to predicted
\* (a comparison with a NaN operand is false; predicted -= c adds -c)
airTempCorrection(e, horizon) == airTempStep(FSub(e.airTemp, e.tempOut), horizon)

solarCorrection(e, horizon) ==
    IF FGt(e.solarRad, FromInt(500)) /\ FLt(e.windSpeed, FromInt(2))
    THEN FMul(Hundredths(30), FDivInt(FromInt(horizon), 7)) ELSE FZero

storageCorrection(e) ==
    IF FLt(e.discharge, FromInt(50)) /\ FGt(e.storage, FromInt(300))
    THEN Hundredths(20) ELSE FZero

\* the air-temperature correction subtracted instead of added
unclampedPredictionCorrectionSubtracted(e, horizon, d) ==
    FAdd(FAdd(FSub(basePrediction(e, horizon, d), airTempCorrection(e, horizon)),
              solarCorrection(e, horizon)),
         storageCorrection(e))

\* predicted just before the clamp of line 118: the three corrections added in turn
unclampedPrediction(e, horizon, d) ==
    FAdd(FAdd(FAdd(basePrediction(e, horizon, d), airTempCorrection(e, horizon)),
              solarCorrection(e, horizon)),
         storageCorrection(e))

\* the clamp with its upper limit missing: Math.max(0, predicted)
clampPredictionLowerOnly(x) ==
    IF IsFNaN(x) THEN FNaN ELSE IF FLt(x, FZero) THEN FZero ELSE x

\* predicted = Math.max(0, Math.min(35, predicted))
clampPrediction(x) == Clamp(FZero, ThirtyFive, x)

\* the clamp applied to the weighted sum before the three corrections are added
clampedPredictionBeforeCorrections(e, horizon, d) ==
    FAdd(FAdd(FAdd(clampPrediction(basePrediction(e, horizon, d)),
                   airTempCorrection(e, horizon)),
              solarCorrection(e, horizon)),
         storageCorrection(e))

clampedPrediction(e, horizon, d) == clampPrediction(unclampedPrediction(e, horizon, d))

\* change taken from the prediction after its rounding to one decimal
changeFromRounded(predicted, origTempOut) == FSub(Tenths(ToFixed1(predicted)), origTempOut)

\* const change = predicted - inputs.tempOut: against the original, not the adjusted object
changeFromOriginal(predicted, origTempOut) == FSub(predicted, origTempOut)

\* an uncertainty width without the horizon base
uncertaintyWidthNoBase(change, horizon) == FMul(FAbs(change), Hundredths(10))

\* const uncertainty = hFactor.uncertainty + Math.abs(change) * 0.1
uncertaintyWidth(change, horizon) ==
    FAdd(Hundredths(horizonFactors(horizon).uncertainty), FMul(FAbs(change), Hundredths(10)))

\* a confidence that grows with the size of the change: 85 - horizon * 2 + |change| * 0.5
roundedConfidenceRising(change, horizon) ==
    MathRound(FAdd(FSub(FromInt(85), FMul(FromInt(horizon), FromInt(2))),
                   FMul(FAbs(change), Hundredths(50))))

\* const confidence = Math.round(85 - horizon * 2 - Math.abs(change) * 0.5)
roundedConfidence(change, horizon) ==
    MathRound(FSub(FSub(FromInt(85), FMul(FromInt(horizon), FromInt(2))),
                   FMul(FAbs(change), Hundredths(50))))

\* the confidence clamp with its lower limit missing: Math.min(95, confidence)
clampConfidenceUpperOnly(c) ==
    IF IsFNaN(c) THEN FNaN ELSE IF FGt(c, FromInt(95)) THEN FromInt(95) ELSE c

\* confidence: Math.max(60, Math.min(95, confidence))
clampConfidence(c) == Clamp(FromInt(60), FromInt(95), c)

\* a mae that grows by 1.0 per day of horizon
maeProxySteep(horizon) == FAdd(Hundredths(50), FMul(FromInt(horizon), One))

\* const mae = 0.5 + horizon * 0.1
maeProxy(horizon) == FAdd(Hundredths(50), FMul(FromInt(horizon), Hundredths(10)))

\* the object returned at lines 127-135 for the numbers predicted, change and uncertainty
returnedPrediction(predicted, change, uncertainty, horizon) ==
    [ predicted  |-> ToFixed1(predicted),
      change     |-> ToFixed1(change),
      mae        |-> ToFixed2(maeProxy(horizon)),
      r2         |-> horizonFactors(horizon).r2,
      confidence |-> IntegerOf(clampConfidence(roundedConfidence(change, horizon))),
      lowerBound |-> ToFixed1(FSub(predicted, uncertainty)),
      upperBound |-> ToFixed1(FAdd(predicted, uncertainty)) ]

\* lines 122-135 for the numbers predicted and change
predictionWithChange(predicted, change, horizon) ==
    returnedPrediction(predicted, change, uncertaintyWidth(change, horizon), horizon)

\* lines 121-135 for the clamped number predicted and the original tempOut
predictionFromClamped(predicted, origTempOut, horizon) ==
    predictionWithChange(predicted, changeFromOriginal(predicted, origTempOut), horizon)

\* lines 82-135 for effective conditions e and the original (unadjusted) tempOut
predictFrom(e, origTempOut, horizon, d) ==
    predictionFromClamped(clampedPrediction(e, horizon, d), origTempOut, horizon)

predictTemperature(i, a, horizon, d) ==
    predictFrom(adjustedInputs(i, a), Hundredths(i.tempOut), horizon, d)

\* ------------------------------------------------------------------------
\* calculateFeatureImportance

\* the keys of baseWeights, in insertion order
FeatureNames ==
    << "T_out (t-1)", "Air Temperature", "Solar Radiation", "Seasonality",
       "Inflow Temp", "Discharge", "Storage", "Wind Speed" >>

baseWeights ==
    [ n \in { FeatureNames[k] : k \in 1..Len(FeatureNames) } |->
        CASE n = "T_out (t-1)"     -> 28
          [] n = "Air Temperature" -> 18
          [] n = "Solar Radiation" -> 14
          [] n = "Seasonality"     -> 12
          [] n = "Inflow Temp"     -> 10
          [] n = "Discharge"       -> 8
          [] n = "Storage"         -> 6
          [] n = "Wind Speed"      -> 4 ]

\* a category table keyed by "Inflow Temperature", a name baseWeights does not use
getCategoryForFeatureMiskeyed(feature) ==
    CASE feature = "T_out (t-1)"        -> "hydrology"
      [] feature = "Air Temperature"    -> "meteorology"
      [] feature = "Solar Radiation"    -> "meteorology"
      [] feature = "Seasonality"        -> "temporal"
      [] feature = "Inflow Temperature" -> "hydrology"
      [] feature = "Discharge"          -> "operations"
      [] feature = "Storage"            -> "operations"
      [] feature = "Wind Speed"         -> "meteorology"
      [] OTHER                          -> "other"

\* the names an object literal inherits from Object.prototype
ObjectPrototypeNames ==
    {"constructor", "hasOwnProperty", "isPrototypeOf", "propertyIsEnumerable",
     "toLocaleString", "toString", "valueOf", "__proto__", "__defineGetter__",
     "__defineSetter__", "__lookupGetter__", "__lookupSetter__"}

\* categories[feature] || "other": a key of the table gives its category; a name the
\* table inherits from Object.prototype gives the inherited member, a function or
\* an object and so truthy, which is returned as it is; any other string gives "other"
getCategoryForFeature(feature) ==
    CASE feature = "T_out (t-1)"     -> "hydrology"
      [] feature = "Air Temperature" -> "meteorology"
      [] feature = "Solar Radiation" -> "meteorology"
      [] feature = "Seasonality"     -> "temporal"
      [] feature = "Inflow Temp"     -> "hydrology"
      [] feature = "Discharge"       -> "operations"
      [] feature = "Storage"         -> "operations"
      [] feature = "Wind Speed"      -> "meteorology"
      [] feature \in ObjectPrototypeNames -> [ inherited |-> feature ]
      [] OTHER                       -> "other"

\* the six conditions of lines 156-182, each on the numbers the code compares
\* Math.abs(inputs.airTemp + adjustments.airTempChange - inputs.tempOut) > 5
tempDiffRule(i, a) ==
    FGt(FAbs(FSub(FAdd(Hundredths(i.airTemp), Hundredths(a.airTempChange)),
                  Hundredths(i.tempOut))),
        Five)

\* the solar rule with an inclusive comparison
solarRuleInclusive(i) == FGe(Hundredths(i.solarRad), FromInt(500))

\* inputs.solarRad > 500
solarRule(i) == FGt(Hundredths(i.solarRad), FromInt(500))

\* inputs.discharge * (1 + adjustments.dischargeChange / 100) < 50
lowDischargeRule(i, a) ==
    FLt(FMul(Hundredths(i.discharge), FAdd(One, FDivInt(Hundredths(a.dischargeChange), 100))),
        FromInt(50))

\* Math.abs(adjustments.dischargeChange) > 20
dischargeChangeRule(a) == FGt(FAbs(Hundredths(a.dischargeChange)), FromInt(20))

\* Math.abs(adjustments.airTempChange) > 3
airTempChangeRule(a) == FGt(FAbs(Hundredths(a.airTempChange)), FromInt(3))

\* Math.abs(adjustments.storageChange) > 15
storageChangeRule(a) == FGt(FAbs(Hundredths(a.storageChange)), FromInt(15))

B(cond, amount) == IF cond THEN amount ELSE 0

\* the weights when a feature takes the bump of only the first of its rules that holds
bumpedByFirstRule(tempDiff, solar, lowDischarge, dischargeChange, airTempChange, storageChange) ==
    [ n \in DOMAIN baseWeights |->
        baseWeights[n]
        + CASE n = "Air Temperature" -> IF tempDiff THEN 5 ELSE B(airTempChange, 3)
            [] n = "T_out (t-1)"     -> B(tempDiff, -3)
            [] n = "Solar Radiation" -> B(solar, 4)
            [] n = "Seasonality"     -> B(solar, -2)
            [] n = "Storage"         -> IF lowDischarge THEN 3 ELSE B(storageChange, 3)
            [] n = "Discharge"       -> IF lowDischarge THEN 2 ELSE B(dischargeChange, 4)
            [] OTHER                 -> 0 ]

\* const adjusted = {...baseWeights} after the six if-statements, given which of their
\* conditions hold: small integers, exact as numbers
bumped(tempDiff, solar, lowDischarge, dischargeChange, airTempChange, storageChange) ==
    [ n \in DOMAIN baseWeights |->
        baseWeights[n]
        + CASE n = "Air Temperature" -> B(tempDiff, 5) + B(airTempChange, 3)
            [] n = "T_out (t-1)"     -> B(tempDiff, -3)
            [] n = "Solar Radiation" -> B(solar, 4)
            [] n = "Seasonality"     -> B(solar, -2)
            [] n = "Storage"         -> B(lowDischarge, 3) + B(storageChange, 3)
            [] n = "Discharge"       -> B(lowDischarge, 2) + B(dischargeChange, 4)
            [] OTHER                 -> 0 ]

\* the object `adjusted` when a feature takes the bump of only the first of its rules that holds
adjustedWeightsFirstRuleOnly(i, a) ==
    bumpedByFirstRule(tempDiffRule(i, a), solarRule(i), lowDischargeRule(i, a),
                      dischargeChangeRule(a), airTempChangeRule(a), storageChangeRule(a))

\* the object `adjusted` after the six if-statements
adjustedWeights(i, a) ==
    bumped(tempDiffRule(i, a), solarRule(i), lowDischargeRule(i, a),
           dischargeChangeRule(a), airTempChangeRule(a), storageChangeRule(a))

RECURSIVE SumWeights(_, _)
\* Object.values(adjusted).reduce((a, b) => a + b, 0) over the first k keys
SumWeights(w, k) == IF k = 0 THEN 0 ELSE SumWeights(w, k - 1) + w[FeatureNames[k]]

\* the percentage taken of the baseline total 100 instead of the sum of the adjusted weights
importancePercentOfBaseline(value, total) ==
    IntegerOf(MathRound(FMul(FDivInt(FromInt(value), 100), Hundred)))

\* Math.round((value / total) * 100)
importancePercent(value, total) ==
    IntegerOf(MathRound(FMul(FDivInt(FromInt(value), total), Hundred)))

RECURSIVE entries(_, _, _)
\* Object.entries(adjusted).map(...) over the first k keys: one entry per key, in
\* insertion order
entries(adjusted, total, k) ==
    IF k = 0 THEN << >>
    ELSE Append(entries(adjusted, total, k - 1),
                [ feature    |-> FeatureNames[k],
                  importance |-> importancePercent(adjusted[FeatureNames[k]], total),
                  category   |-> getCategoryForFeature(FeatureNames[k]) ])

\* the entries of the weights adjusted, as percentages of their total
normalizedOf(adjusted) ==
    entries(adjusted, SumWeights(adjusted, Len(FeatureNames)), Len(FeatureNames))

\* const normalized = Object.entries(adjusted).map(...)
normalized(i, a) == normalizedOf(adjustedWeights(i, a))

RECURSIVE InsertDesc(_, _)
\* insert entry x into a descending sequence after every entry that does not compare below it
InsertDesc(s, x) ==
    IF s = << >> THEN << x >>
    ELSE IF Head(s).importance >= x.importance THEN << Head(s) >> \o InsertDesc(Tail(s), x)
    ELSE << x >> \o s

\* the entries returned in insertion order, the sort left out
sortOmitted(s) == s

RECURSIVE sortDescending(_)
\* normalized.sort((a, b) => b.importance - a.importance): a stable sort
sortDescending(s) ==
    IF s = << >> THEN << >>
    ELSE InsertDesc(sortDescending(SubSeq(s, 1, Len(s) - 1)), s[Len(s)])

calculateFeatureImportance(i, a) == sortDescending(normalized(i, a))

\* ------------------------------------------------------------------------
\* useReservoirModel: the state holder

InputKeys == {"tempOut", "tempIn", "discharge", "storage",
              "airTemp", "solarRad", "windSpeed", "humidity"}

AdjustmentKeys == {"dischargeChange", "airTempChange", "storageChange"}

\* useState initial values of lines 210-225
InitialInputs ==
    [ tempOut |-> 1850, tempIn |-> 1620, discharge |-> 14250, storage |-> 28530,
      airTemp |-> 2280, solarRad |-> 42500, windSpeed |-> 320, humidity |-> 6500 ]

ZeroAdjustments == [ dischargeChange |-> 0, airTempChange |-> 0, storageChange |-> 0 ]

\* most generate timers pending at once
MaxPending == 2

\* most midnights the page stays open across
MaxMidnights == 1

\* values the input panel passes to updateInput for a key: an outflow temperature
\* of 26 is typed, the other fields are left alone
TypedValues(key) == IF key = "tempOut" THEN {2600} ELSE {}

\* objects a holder of the raw setter passes to setInputs: two keys replaced in one
\* call, setInputs({ ...inputs, tempOut: 26, airTemp: 30 }) on the initial inputs
SetInputsValues == { [InitialInputs EXCEPT !.tempOut = 2600, !.airTemp = 3000] }

\* values a caller of updateAdjustment passes for a key: the air-temperature delta
\* is moved, the other two are left alone
AdjustmentValues(key) == IF key = "airTempChange" THEN {0, 350} ELSE {}

Days == 0..6

\* the day of the week on which the page is loaded: a Saturday, so that a midnight
\* carries getDay() from 6 back to 0
StartDays == {6}

\* the values a key of the inputs can hold: the initial one, typed ones and those
\* of a setInputs object
InputValues(key) ==
    {InitialInputs[key]} \cup TypedValues(key) \cup {v[key] : v \in SetInputsValues}

\* the values a key of the adjustments can hold
AdjustmentValuesHeld(key) == {ZeroAdjustments[key]} \cup AdjustmentValues(key)

\* the snapshots the operations can produce
SnapshotInputs ==
    [ tempOut   : InputValues("tempOut"),   tempIn    : InputValues("tempIn"),
      discharge : InputValues("discharge"), storage   : InputValues("storage"),
      airTemp   : InputValues("airTemp"),   solarRad  : InputValues("solarRad"),
      windSpeed : InputValues("windSpeed"), humidity  : InputValues("humidity") ]

SnapshotAdjustments ==
    [ dischargeChange : AdjustmentValuesHeld("dischargeChange"),
      airTempChange   : AdjustmentValuesHeld("airTempChange"),
      storageChange   : AdjustmentValuesHeld("storageChange") ]

\* predictTemperature of every snapshot, horizon and day of the week, computed once
predictionsMemo ==
    [ k \in SnapshotInputs \X SnapshotAdjustments \X Days |->
        [ h \in Horizons |-> predictTemperature(k[1], k[2], h, k[3]) ] ] @@ << >>

\* the value of the featureImportance memo for every snapshot, computed once
featureImportanceMemo ==
    [ k \in SnapshotInputs \X SnapshotAdjustments |->
        calculateFeatureImportance(k[1], k[2]) ] @@ << >>

\* one call predictTemperature(forecastInputs, forecastAdjustments, h), whose
\* new Date().getDay() (line 63) reads d
predictionOnDay(fi, fa, h, d) ==
    IF <<fi, fa, d>> \in DOMAIN predictionsMemo THEN predictionsMemo[<<fi, fa, d>>][h]
    ELSE predictTemperature(fi, fa, h, d)

\* useMemo(() => ({1: .., 3: .., 7: ..}), [forecastInputs, forecastAdjustments]): three
\* calls of predictTemperature, each of which reads the clock itself: d1, d3 and d7
\* are the days the calls for the horizons 1, 3 and 7 read
computePredictions(fi, fa, d1, d3, d7) ==
    IF fi = Null \/ fa = Null THEN Null
    ELSE [ h \in Horizons |->
             predictionOnDay(fi, fa, h, CASE h = 1 -> d1 [] h = 3 -> d3 [] OTHER -> d7) ]

\* useMemo(() => calculateFeatureImportance(..), [forecastInputs, forecastAdjustments])
computeFeatureImportance(fi, fa) ==
    IF fi = Null \/ fa = Null THEN Null
    ELSE IF <<fi, fa>> \in DOMAIN featureImportanceMemo THEN featureImportanceMemo[<<fi, fa>>]
    ELSE calculateFeatureImportance(fi, fa)

\* a currentPrediction that ignores the active horizon: predictions[1]
currentPredictionFirstHorizon == IF predictions = Null THEN Null ELSE predictions[1]

\* const currentPrediction = predictions ? predictions[activeHorizon] : null, evaluated
\* in a render with the activeHorizon that render binds: until the render after a
\* setActiveHorizon has run, the hook returns the prediction of the horizon before
currentPrediction == IF predictions = Null THEN Null ELSE predictions[boundHorizon]

\* arguments of a direct call: the default conditions, no adjustment, horizon 1
InitialArgs == [ inputs |-> InitialInputs, adjustments |-> ZeroAdjustments, horizon |-> 1 ]

\* the updates a timeout callback makes are rendered together, in one render after
\* the callback has returned. What decides this, the entry point that mounts the
\* component tree, is not in the source files; the specification has the snapshot
\* "created by a single commit operation"
batchedUpdates == TRUE

\* the state after the first render
Init ==
    /\ inputs = InitialInputs
    /\ adjustments = ZeroAdjustments
    /\ activeHorizon = 1
    /\ hasForecast = FALSE
    /\ isGenerating = FALSE
    /\ forecastInputs = Null
    /\ forecastAdjustments = Null
    /\ bound = [inputs |-> InitialInputs, adjustments |-> ZeroAdjustments]
    /\ boundHorizon = 1
    /\ memoDeps = [inputs |-> Null, adjustments |-> Null]
    /\ predictions = Null
    /\ featureImportance = Null
    /\ depsChanged = FALSE
    /\ renderDue = FALSE
    /\ timers = << >>
    /\ day \in StartDays
    /\ midnights = 0
    /\ captured = {}
    /\ lastRequest = Null
    /\ fired = FALSE
    /\ args = InitialArgs
    /\ ret = Null

\* updateInput that also re-snapshots the forecast once one is shown
updateInputRecomputing(key, value) ==
    /\ inputs' = [inputs EXCEPT ![key] = value]
    /\ forecastInputs' = IF hasForecast THEN inputs' ELSE forecastInputs
    /\ depsChanged' = (depsChanged \/ hasForecast)
    /\ renderDue' = TRUE
    /\ UNCHANGED <<adjustments, activeHorizon, hasForecast, isGenerating,
                   forecastAdjustments, bound, boundHorizon, memoDeps,
                   predictions, featureImportance, timers,
                   day, midnights, captured, lastRequest, fired, args, ret>>

\* setInputs((prev) => ({ ...prev, [key]: value })): the updater is applied to the
\* latest state, whatever render the caller holds updateInput from
updateInput(key, value) ==
    /\ inputs' = [inputs EXCEPT ![key] = value]
    /\ renderDue' = TRUE
    /\ UNCHANGED <<adjustments, activeHorizon, hasForecast, isGenerating, forecastInputs,
                   forecastAdjustments, bound, boundHorizon, memoDeps,
                   predictions, featureImportance,
                   depsChanged, timers, day, midnights, captured, lastRequest, fired,
                   args, ret>>

\* the raw state setter the hook returns (line 282): the object replaces the inputs.
\* held says that the caller passes the very object the state holds (the inputs the
\* hook returned): React compares with Object.is and asks for no render then; any
\* other object, also one with the values held, is new state and a render follows
setInputs(value, held) ==
    /\ held => value = inputs
    /\ inputs' = value
    /\ renderDue' = (renderDue \/ ~held)
    /\ UNCHANGED <<adjustments, activeHorizon, hasForecast, isGenerating, forecastInputs,
                   forecastAdjustments, bound, boundHorizon, memoDeps,
                   predictions, featureImportance,
                   depsChanged, timers, day, midnights, captured, lastRequest, fired,
                   args, ret>>

\* an updateAdjustment whose new value reaches the closures of the pending timers
updateAdjustmentSeenByPending(key, value) ==
    /\ adjustments' = [adjustments EXCEPT ![key] = value]
    /\ timers' = [k \in DOMAIN timers |-> [timers[k] EXCEPT !.adjustments = adjustments']]
    /\ renderDue' = TRUE
    /\ UNCHANGED <<inputs, activeHorizon, hasForecast, isGenerating, forecastInputs,
                   forecastAdjustments, bound, boundHorizon, memoDeps,
                   predictions, featureImportance,
                   depsChanged, day, midnights, captured, lastRequest, fired, args, ret>>

\* setAdjustments((prev) => ({ ...prev, [key]: value }))
updateAdjustment(key, value) ==
    /\ adjustments' = [adjustments EXCEPT ![key] = value]
    /\ renderDue' = TRUE
    /\ UNCHANGED <<inputs, activeHorizon, hasForecast, isGenerating, forecastInputs,
                   forecastAdjustments, bound, boundHorizon, memoDeps,
                   predictions, featureImportance,
                   depsChanged, timers, day, midnights, captured, lastRequest, fired,
                   args, ret>>

\* a resetAdjustments that also clears the pending timeouts
resetAdjustmentsCancelling ==
    /\ adjustments' = ZeroAdjustments
    /\ timers' = << >>
    /\ renderDue' = TRUE
    /\ UNCHANGED <<inputs, activeHorizon, hasForecast, isGenerating, forecastInputs,
                   forecastAdjustments, bound, boundHorizon, memoDeps,
                   predictions, featureImportance,
                   depsChanged, day, midnights, captured, lastRequest, fired, args, ret>>

\* setAdjustments({ dischargeChange: 0, airTempChange: 0, storageChange: 0 })
resetAdjustments ==
    /\ adjustments' = ZeroAdjustments
    /\ renderDue' = TRUE
    /\ UNCHANGED <<inputs, activeHorizon, hasForecast, isGenerating, forecastInputs,
                   forecastAdjustments, bound, boundHorizon, memoDeps,
                   predictions, featureImportance,
                   depsChanged, timers, day, midnights, captured, lastRequest, fired,
                   args, ret>>

\* a horizon switch that computes the predictions from the live inputs and adjustments
setActiveHorizonComputing(h) ==
    /\ activeHorizon' = h
    /\ predictions' = computePredictions(inputs, adjustments, day, day, day)
    /\ renderDue' = (renderDue \/ h # activeHorizon)
    /\ UNCHANGED <<inputs, adjustments, hasForecast, isGenerating, forecastInputs,
                   forecastAdjustments, bound, boundHorizon, memoDeps,
                   featureImportance, depsChanged, timers,
                   day, midnights, captured, lastRequest, fired, args, ret>>

\* the state setter of activeHorizon (line 227); setting the value the state holds
\* asks for no render
setActiveHorizon(h) ==
    /\ activeHorizon' = h
    /\ renderDue' = (renderDue \/ h # activeHorizon)
    /\ UNCHANGED <<inputs, adjustments, hasForecast, isGenerating, forecastInputs,
                   forecastAdjustments, bound, boundHorizon, memoDeps,
                   predictions, featureImportance,
                   depsChanged, timers, day, midnights, captured, lastRequest, fired,
                   args, ret>>

\* a timer whose closure holds other inputs than the last render bound is pending
otherInputsPending == \E k \in DOMAIN timers : timers[k].inputs # bound.inputs

\* a generateForecast that schedules nothing while an earlier timer is pending
generateForecastIgnoredWhileBusy ==
    /\ Len(timers) < MaxPending
    /\ isGenerating' = TRUE
    /\ renderDue' = (renderDue \/ ~isGenerating)
    /\ timers' = IF timers = << >> THEN Append(timers, bound) ELSE timers
    /\ captured' = captured \cup {bound}
    /\ lastRequest' = [inputs |-> bound.inputs, adjustments |-> bound.adjustments,
                       overlapped |-> otherInputsPending]
    /\ UNCHANGED <<inputs, adjustments, activeHorizon, hasForecast, forecastInputs,
                   forecastAdjustments, bound, boundHorizon, memoDeps,
                   predictions, featureImportance,
                   depsChanged, day, midnights, fired, args, ret>>

\* setIsGenerating(true); setTimeout(<callback>, 800). The callback closes over the
\* constants inputs and adjustments of the render that created this generateForecast
\* (useCallback with [inputs, adjustments]), not over the state: an update made
\* since that render is not in the pair
generateForecast ==
    /\ Len(timers) < MaxPending
    /\ isGenerating' = TRUE
    /\ renderDue' = (renderDue \/ ~isGenerating)
    /\ timers' = Append(timers, bound)
    /\ captured' = captured \cup {bound}
    /\ lastRequest' = [inputs |-> bound.inputs, adjustments |-> bound.adjustments,
                       overlapped |-> otherInputsPending]
    /\ UNCHANGED <<inputs, adjustments, activeHorizon, hasForecast, forecastInputs,
                   forecastAdjustments, bound, boundHorizon, memoDeps,
                   predictions, featureImportance,
                   depsChanged, day, midnights, fired, args, ret>>

\* the captured pairs still in use when the pending timers are ts, the snapshot is
\* (fi, fa) and the dependencies both useMemo hold are deps
stillInUse(ts, fi, fa, deps) ==
    {c \in captured :
        \/ c = [inputs |-> fi, adjustments |-> fa]
        \/ c = deps
        \/ \E k \in DOMAIN ts : ts[k] = c}

\* a timeout callback that reads the inputs and adjustments of the state when it runs
timerFiresReadingLive ==
    /\ timers # << >>
    /\ batchedUpdates
    /\ forecastInputs' = inputs
    /\ forecastAdjustments' = adjustments
    /\ hasForecast' = TRUE
    /\ isGenerating' = FALSE
    /\ timers' = Tail(timers)
    /\ depsChanged' = TRUE
    /\ renderDue' = TRUE
    /\ fired' = TRUE
    /\ captured' = stillInUse(Tail(timers), inputs, adjustments, memoDeps)
    /\ UNCHANGED <<inputs, adjustments, activeHorizon, bound, boundHorizon,
                   memoDeps, predictions,
                   featureImportance, day, midnights, lastRequest, args, ret>>

\* a callback that stores the snapshot but leaves hasForecast as it was
timerFiresKeepingFlag ==
    /\ timers # << >>
    /\ batchedUpdates
    /\ forecastInputs' = Head(timers).inputs
    /\ forecastAdjustments' = Head(timers).adjustments
    /\ isGenerating' = FALSE
    /\ timers' = Tail(timers)
    /\ depsChanged' = TRUE
    /\ renderDue' = TRUE
    /\ fired' = TRUE
    /\ captured' = stillInUse(Tail(timers), Head(timers).inputs, Head(timers).adjustments,
                            memoDeps)
    /\ UNCHANGED <<inputs, adjustments, activeHorizon, hasForecast, bound, boundHorizon,
                   memoDeps, predictions,
                   featureImportance, day, midnights, lastRequest, args, ret>>

\* the oldest pending timeout callback runs (equal delays fire in the order they were
\* set): setForecastInputs({ ...inputs }); setForecastAdjustments({ ...adjustments });
\* setHasForecast(true); setIsGenerating(false), with the pair of its closure. It
\* reads no clock and computes nothing: both objects are new, so the next render
\* finds the dependencies of the two useMemo changed
timerFires ==
    /\ timers # << >>
    /\ batchedUpdates
    /\ forecastInputs' = Head(timers).inputs
    /\ forecastAdjustments' = Head(timers).adjustments
    /\ hasForecast' = TRUE
    /\ isGenerating' = FALSE
    /\ timers' = Tail(timers)
    /\ depsChanged' = TRUE
    /\ renderDue' = TRUE
    /\ fired' = TRUE
    /\ captured' = stillInUse(Tail(timers), Head(timers).inputs, Head(timers).adjustments,
                            memoDeps)
    /\ UNCHANGED <<inputs, adjustments, activeHorizon, bound, boundHorizon,
                   memoDeps, predictions,
                   featureImportance, day, midnights, lastRequest, args, ret>>

\* the day the n-th new Date().getDay() of a render reads, when midnight falls
\* after the first `before` of its reads
readDay(n, before) == IF n <= before THEN day ELSE (day + 1) % 7

\* the render React runs after state was set: the body of useReservoirModel with the
\* latest state. The inputs and adjustments it binds are the ones the
\* generateForecast it creates closes over, the activeHorizon it binds is the one
\* currentPrediction selects with. Both useMemo keep their value unless
\* forecastInputs or forecastAdjustments was set since the last render; then
\* predictTemperature is called three times and each call reads the clock, so
\* midnight may fall between two of the reads
render ==
    /\ renderDue
    /\ \E before \in 1..3 :
          /\ (before < 3) =>
                 /\ depsChanged
                 /\ forecastInputs # Null
                 /\ forecastAdjustments # Null
                 /\ midnights < MaxMidnights
          /\ predictions' =
                 IF depsChanged
                 THEN computePredictions(forecastInputs, forecastAdjustments,
                                         readDay(1, before), readDay(2, before),
                                         readDay(3, before))
                 ELSE predictions
          /\ day' = IF before < 3 THEN (day + 1) % 7 ELSE day
          /\ midnights' = IF before < 3 THEN midnights + 1 ELSE midnights
    /\ featureImportance' =
           IF depsChanged
           THEN computeFeatureImportance(forecastInputs, forecastAdjustments)
           ELSE featureImportance
    /\ bound' = [inputs |-> inputs, adjustments |-> adjustments]
    /\ boundHorizon' = activeHorizon
    /\ depsChanged' = FALSE
    /\ renderDue' = FALSE
    /\ memoDeps' = IF depsChanged
                   THEN [inputs |-> forecastInputs, adjustments |-> forecastAdjustments]
                   ELSE memoDeps
    /\ captured' = stillInUse(timers, forecastInputs, forecastAdjustments, memoDeps')
    /\ UNCHANGED <<inputs, adjustments, activeHorizon, hasForecast, isGenerating,
                   forecastInputs, forecastAdjustments, timers, lastRequest, fired,
                   args, ret>>

\* midnight between two steps: new Date().getDay() moves on
dayPasses ==
    /\ midnights < MaxMidnights
    /\ midnights' = midnights + 1
    /\ day' = (day + 1) % 7
    /\ UNCHANGED <<hookVars, fnVars>>

Next ==
    \/ \E key \in InputKeys : \E value \in TypedValues(key) : updateInput(key, value)
    \/ \E value \in SetInputsValues \cup {inputs} : \E held \in BOOLEAN : setInputs(value, held)
    \/ \E key \in AdjustmentKeys : \E value \in AdjustmentValues(key) : updateAdjustment(key, value)
    \/ resetAdjustments
    \/ \E h \in Horizons : setActiveHorizon(h)
    \/ generateForecast
    \/ timerFires
    \/ render
    \/ dayPasses

Spec == Init /\ [][Next]_vars

\* what the run of the oldest pending timeout callback does to the timers: the
\* only step of the hook that removes a timer is timerFires
timeoutElapses == timers # << >> /\ timers' = Tail(timers)

\* what a render does to the request for one: the only step that clears it is render
renderRuns == renderDue /\ renderDue' = FALSE

\* the hook with timers that do fire and renders that do run: a callback set by
\* setTimeout runs once its 800 ms have elapsed, and React runs the render it has
\* scheduled
SpecLive == Spec /\ WF_timers(timeoutElapses) /\ WF_renderDue(renderRuns)

\* ------------------------------------------------------------------------
\* Direct calls of the two pure functions

\* calls about the temperatures (hundredths): outflow temperatures that drive the sum
\* below 0 and above 35, one of two decimals, one that is NaN, and air temperatures
\* and deltas on both sides of, and at, a difference of 5 and -5
TemperatureCalls ==
    [ inputs      : [ tempOut   : {-500, 330, 1850, 1853, 6000, NaN},
                      tempIn    : {1620},
                      discharge : {14250},
                      storage   : {28530},
                      airTemp   : {830, 1000, 2280, 2350, 6600},
                      solarRad  : {42500},
                      windSpeed : {320},
                      humidity  : {6500} ],
      adjustments : [ dischargeChange : {0},
                      airTempChange   : {-1000, 0, 350},
                      storageChange   : {0} ],
      horizon     : Horizons ]

\* calls about the corrections (hundredths): discharge, storage, radiation and wind
\* on both sides of 50, 300, 500 and 2, a discharge of 250 lowered by 80 percent
CorrectionCalls ==
    [ inputs      : [ tempOut   : {1850},
                      tempIn    : {1620},
                      discharge : {4000, 14250, 25000},
                      storage   : {28530, 35020},
                      airTemp   : {2280},
                      solarRad  : {42500, 60000},
                      windSpeed : {150, 320},
                      humidity  : {6500} ],
      adjustments : [ dischargeChange : {-8000, -2500, 0, 5000},
                      airTempChange   : {0, 350},
                      storageChange   : {0, 2000} ],
      horizon     : Horizons ]

CallArgs == TemperatureCalls \cup CorrectionCalls

\* the days of the week of the calls: the calls about the temperatures are made on
\* every day, the calls about the corrections on a Wednesday
CallDays(c) == IF c \in TemperatureCalls THEN Days ELSE {3}

InitFn ==
    /\ inputs = InitialInputs
    /\ adjustments = ZeroAdjustments
    /\ activeHorizon = 1
    /\ hasForecast = FALSE
    /\ isGenerating = FALSE
    /\ forecastInputs = Null
    /\ forecastAdjustments = Null
    /\ bound = [inputs |-> InitialInputs, adjustments |-> ZeroAdjustments]
    /\ boundHorizon = 1
    /\ memoDeps = [inputs |-> Null, adjustments |-> Null]
    /\ predictions = Null
    /\ featureImportance = Null
    /\ depsChanged = FALSE
    /\ renderDue = FALSE
    /\ timers = << >>
    /\ args \in CallArgs
    /\ day \in CallDays(args)
    /\ midnights = 0
    /\ captured = {}
    /\ lastRequest = Null
    /\ fired = FALSE
    /\ ret = Null

callPredictTemperature ==
    /\ ret = Null
    /\ ret' = [ fn    |-> "predictTemperature",
                value |-> predictTemperature(args.inputs, args.adjustments, args.horizon, day) ]
    /\ UNCHANGED <<hookVars, day, midnights, args>>

callCalculateFeatureImportance ==
    /\ ret = Null
    /\ ret' = [ fn    |-> "calculateFeatureImportance",
                value |-> calculateFeatureImportance(args.inputs, args.adjustments) ]
    /\ UNCHANGED <<hookVars, day, midnights, args>>

NextFn ==
    \/ callPredictTemperature
    \/ callCalculateFeatureImportance

SpecFn == InitFn /\ [][NextFn]_vars

\* ------------------------------------------------------------------------
\* Direct calls of calculateFeatureImportance at the thresholds of its six rules

\* conditions on, and on both sides of, the thresholds 5, 500 and 50 (hundredths)
RuleInputs ==
    [ tempOut   : {330, 1850},
      tempIn    : {1620},
      discharge : {4000, 5000, 14250, 25000},
      storage   : {28530},
      airTemp   : {830, 1350, 2050, 2280, 2350},
      solarRad  : {42500, 50000, 60000},
      windSpeed : {320},
      humidity  : {6500} ]

\* adjustments on, and on both sides of, the thresholds 20, 3 and 15 (hundredths)
RuleAdjustments ==
    [ dischargeChange : {-8000, -2500, -2000, 0, 2000},
      airTempChange   : {-350, -300, 0, 300},
      storageChange   : {-1500, 0, 1500, 2000} ]

InitRules ==
    /\ inputs = InitialInputs
    /\ adjustments = ZeroAdjustments
    /\ activeHorizon = 1
    /\ hasForecast = FALSE
    /\ isGenerating = FALSE
    /\ forecastInputs = Null
    /\ forecastAdjustments = Null
    /\ bound = [inputs |-> InitialInputs, adjustments |-> ZeroAdjustments]
    /\ boundHorizon = 1
    /\ memoDeps = [inputs |-> Null, adjustments |-> Null]
    /\ predictions = Null
    /\ featureImportance = Null
    /\ depsChanged = FALSE
    /\ renderDue = FALSE
    /\ timers = << >>
    /\ day = 0
    /\ midnights = 0
    /\ captured = {}
    /\ lastRequest = Null
    /\ fired = FALSE
    /\ args \in [ inputs : RuleInputs, adjustments : RuleAdjustments, horizon : {1} ]
    /\ ret = Null

SpecRules == InitRules /\ [][callCalculateFeatureImportance]_vars

\* ------------------------------------------------------------------------
\* Properties

PredictReturned == ret # Null /\ ret.fn = "predictTemperature"

ImportanceReturned == ret # Null /\ ret.fn = "calculateFeatureImportance"

\* no field of the conditions or of the adjustment of the call is NaN
NoNaNArgs ==
    /\ \A k \in InputKeys : ~IsNaN(args.inputs[k])
    /\ \A k \in AdjustmentKeys : ~IsNaN(args.adjustments[k])

\* the effective conditions of the call and the value predictTemperature clamps
CallEffective == adjustedInputs(args.inputs, args.adjustments)

CallUnclamped == unclampedPrediction(CallEffective, args.horizon, day)

\* |x| of an integer
Abs(x) == IF x < 0 THEN -x ELSE x

\* a / b rounded to the nearest integer (b > 0), halves upwards
RoundDiv(a, b) == (2 * a + b) \div (2 * b)

\* a number in millionths, to the nearest integer
Micro(x) == ToFixed(FMul(x, FromInt(1000)), 1000)

\* the pair the state holds
LivePair == [inputs |-> inputs, adjustments |-> adjustments]

\* the forecast snapshot the state holds, as a pair
SnapshotPair == [inputs |-> forecastInputs, adjustments |-> forecastAdjustments]

\* the days of the week the run has seen: today and the days before the midnights passed
DaysSinceStart == {(day + 7 - k) % 7 : k \in 0..midnights}

\* the three predictions are those of the pair c, each call on a day the run has seen
PredictionsOf(c) ==
    \A h \in Horizons :
        \E d \in DaysSinceStart :
            predictions[h] = predictionOnDay(c.inputs, c.adjustments, h, d)

\* C1: predictions and featureImportance are both null, or are predictTemperature /
\* calculateFeatureImportance of one pair that an earlier generateForecast captured,
\* each horizon on a day the run has seen; once the render after a callback has run,
\* the pair is the forecast snapshot
C1_PinnedToCaptured ==
    /\ (predictions = Null) = (featureImportance = Null)
    /\ (predictions # Null) =>
           \E c \in captured :
               /\ depsChanged \/ c = SnapshotPair
               /\ featureImportance = computeFeatureImportance(c.inputs, c.adjustments)
               /\ PredictionsOf(c)

\* C1 witness: a forecast is shown, nothing awaits a render, and the pair the
\* state holds is not one a generate request captured
C1_Witness ==
    /\ predictions # Null
    /\ featureImportance # Null
    /\ ~renderDue
    /\ LivePair \notin captured
    /\ Cardinality(captured) >= 2

\* a step of updateInput, updateAdjustment or resetAdjustments
EditStep ==
    \/ \E key \in InputKeys : \E value \in TypedValues(key) : updateInput(key, value)
    \/ \E key \in AdjustmentKeys : \E value \in AdjustmentValues(key) :
          updateAdjustment(key, value)
    \/ resetAdjustments

\* C2: a step of updateInput, updateAdjustment or resetAdjustments leaves the forecast
\* snapshot, hasForecast, isGenerating, predictions, currentPrediction and
\* featureImportance as they were, and the render it asks for leaves them too:
\* the snapshot changes only when a timeout callback runs, predictions and
\* featureImportance only in a render after one
C2_EditsKeepForecast ==
    /\ [][ EditStep
           => /\ UNCHANGED <<forecastInputs, forecastAdjustments, hasForecast, isGenerating,
                             predictions, featureImportance, depsChanged>>
              /\ currentPrediction' = currentPrediction
              /\ \/ UNCHANGED inputs
                 \/ UNCHANGED adjustments ]_vars
    /\ [][ (forecastInputs' # forecastInputs \/ forecastAdjustments' # forecastAdjustments)
           => Len(timers') < Len(timers) ]_vars
    /\ [][ (predictions' # predictions \/ featureImportance' # featureImportance)
           => (depsChanged /\ renderDue /\ ~renderDue') ]_vars

\* C2 witness: with a forecast shown and no request pending, the inputs and the
\* adjustments have both been edited away from the snapshot and rendered, and the
\* predictions are still those of the snapshot
C2_Witness ==
    /\ hasForecast
    /\ timers = << >>
    /\ ~renderDue
    /\ predictions # Null
    /\ inputs # forecastInputs
    /\ adjustments # forecastAdjustments
    /\ bound = LivePair
    /\ PredictionsOf(SnapshotPair)

\* C3 as stated: predictedTemp lies in [0, 35] for every input
C3_Original == PredictReturned => ret.value.predicted \in 0..350

\* C3 amended: predictedTemp lies in [0, 35] for every input none of whose fields is NaN
C3_PredictedInRange ==
    (PredictReturned /\ NoNaNArgs) => ret.value.predicted \in 0..350

\* C3 witness: the weighted sum is above 35 and the returned prediction is 35
C3_Witness ==
    /\ PredictReturned
    /\ NoNaNArgs
    /\ FGt(CallUnclamped, ThirtyFive)
    /\ ret.value.predicted = 350

\* round(predictedTemp - outflowTemp, 1) of the returned (rounded) prediction, in tenths
RoundedDifference(predictedTenths, tempOut) ==
    ToFixed1(FSub(Tenths(predictedTenths), Hundredths(tempOut)))

\* C4 as stated: change equals round(predictedTemp - outflowTemp, 1), predictedTemp being
\* the returned, already rounded value
C4_Original ==
    PredictReturned =>
        ret.value.change = RoundedDifference(ret.value.predicted, args.inputs.tempOut)

\* C4 amended: change is the clamped prediction before its rounding minus the original
\* outflowTemp, rounded to one decimal; for inputs without NaN it is within 0.1 of the
\* returned predictedTemp minus outflowTemp
C4_ChangeFromUnrounded ==
    PredictReturned =>
        LET clamped == Clamp(FZero, ThirtyFive, CallUnclamped)
            exact   == FSub(clamped, Hundredths(args.inputs.tempOut))
        IN  /\ ret.value.change = ToFixed1(exact)
            /\ NoNaNArgs =>
                 Abs(10 * ret.value.change
                     - (10 * ret.value.predicted - args.inputs.tempOut)) <= 10

\* C4 witness: a call without NaN whose change differs from the rounded difference
C4_Witness ==
    /\ PredictReturned
    /\ NoNaNArgs
    /\ ret.value.change # RoundedDifference(ret.value.predicted, args.inputs.tempOut)

\* C5 as stated: confidencePercent lies in [60, 95] for every input
C5_Original == PredictReturned => ret.value.confidence \in 60..95

\* C5 amended: confidencePercent lies in [60, 95] for every input none of whose fields is NaN
C5_ConfidenceInRange ==
    (PredictReturned /\ NoNaNArgs) => ret.value.confidence \in 60..95

\* C5 witness: the change is so large that 85 - 2 h - 0.5 |change| is below 59, and the
\* returned confidence is 60
C5_Witness ==
    /\ PredictReturned
    /\ NoNaNArgs
    /\ Abs(ret.value.change) > 520 - 40 * args.horizon
    /\ ret.value.confidence = 60

\* C6: r2Proxy is 0.94, 0.89, 0.85 for h = 1, 3, 7, whatever the conditions and adjustments
C6_R2ByHorizon ==
    PredictReturned =>
        /\ args.horizon = 1 => ret.value.r2 = 94
        /\ args.horizon = 3 => ret.value.r2 = 89
        /\ args.horizon = 7 => ret.value.r2 = 85

\* C6 witness: a 3-day call with non-zero adjustments and a clamped prediction
C6_Witness ==
    /\ PredictReturned
    /\ args.horizon = 3
    /\ args.adjustments # ZeroAdjustments
    /\ ret.value.predicted = 350
    /\ ret.value.r2 = 89

RECURSIVE SumImportance(_)
SumImportance(s) == IF s = << >> THEN 0 ELSE Head(s).importance + SumImportance(Tail(s))

\* C7: calculateFeatureImportance returns 8 entries, one per feature name, each with an
\* integer percentage, the 8 percentages summing to 100 plus or minus 8
C7_EightEntriesNearHundred ==
    ImportanceReturned =>
        /\ Len(ret.value) = 8
        /\ \A k \in 1..Len(FeatureNames) :
             Cardinality({ j \in 1..Len(ret.value) : ret.value[j].feature = FeatureNames[k] }) = 1
        /\ \A j \in 1..Len(ret.value) : ret.value[j].importance \in 0..100
        /\ SumImportance(ret.value) \in 92..108

\* C7 witness: four rules bump the weights and the rounded percentages do not add up to 100
C7_Witness ==
    /\ ImportanceReturned
    /\ tempDiffRule(args.inputs, args.adjustments)
    /\ lowDischargeRule(args.inputs, args.adjustments)
    /\ dischargeChangeRule(args.adjustments)
    /\ storageChangeRule(args.adjustments)
    /\ SumImportance(ret.value) # 100

\* the observed conditions taken as effective conditions, no adjustment step applied
ObservedConditions(i) ==
    [ tempOut   |-> Hundredths(i.tempOut),
      tempIn    |-> Hundredths(i.tempIn),
      discharge |-> Hundredths(i.discharge),
      storage   |-> Hundredths(i.storage),
      airTemp   |-> Hundredths(i.airTemp),
      solarRad  |-> Hundredths(i.solarRad),
      windSpeed |-> Hundredths(i.windSpeed),
      humidity  |-> Hundredths(i.humidity) ]

\* C8: with the all-zero adjustment predictTemperature returns the prediction computed
\* from the observed conditions themselves
C8_ZeroAdjustmentIdentity ==
    (PredictReturned /\ args.adjustments = ZeroAdjustments) =>
        ret.value = predictFrom(ObservedConditions(args.inputs),
                                Hundredths(args.inputs.tempOut), args.horizon, day)

\* C8 witness: a call with the all-zero adjustment in which the low-discharge correction,
\* which reads the effective discharge and storage, applies
C8_Witness ==
    /\ PredictReturned
    /\ args.adjustments = ZeroAdjustments
    /\ NoNaNArgs
    /\ args.inputs.discharge < 5000
    /\ args.inputs.storage > 30000
    /\ ret.value.predicted \in 1..349

\* C9: the returned sequence is ordered by importancePercent, non-increasing
C9_SortedDescending ==
    ImportanceReturned =>
        \A k \in 1..(Len(ret.value) - 1) :
            ret.value[k].importance >= ret.value[k + 1].importance

\* C9 witness: the returned order is not the insertion order of the weights
C9_Witness ==
    /\ ImportanceReturned
    /\ \E k \in 1..Len(FeatureNames) : ret.value[k].feature # FeatureNames[k]

\* the field names of a PredictionResult
PredictionResultFields ==
    {"predicted", "change", "mae", "r2", "confidence", "lowerBound", "upperBound"}

\* C11: a call one of whose effective conditions is NaN still returns a
\* PredictionResult, and its predictedTemp is NaN, not a value in [0, 35]
C11_NaNSurvivesClamp ==
    (PredictReturned /\ AnyNaN(CallEffective)) =>
        /\ DOMAIN ret.value = PredictionResultFields
        /\ IsNaN(ret.value.predicted)
        /\ ret.value.predicted \notin 0..350

\* C11 witness: predictTemperature returned for an outflow temperature of NaN
C11_Witness ==
    /\ PredictReturned
    /\ IsNaN(args.inputs.tempOut)
    /\ IsFNaN(CallEffective.tempOut)
    /\ IsNaN(ret.value.predicted)

\* C12: once a generate request has been made and no timer is pending, the
\* forecast snapshot is the pair captured by the most recently invoked
\* generateForecast, also when requests overlapped
C12_SnapshotIsLatestRequest ==
    (lastRequest # Null /\ timers = << >>) =>
        /\ forecastInputs = lastRequest.inputs
        /\ forecastAdjustments = lastRequest.adjustments

\* C12 witness: two requests with different pairs overlapped, both timers have
\* fired, the render has run and the snapshot is the pair of the later one
C12_Witness ==
    /\ lastRequest # Null
    /\ lastRequest.overlapped
    /\ timers = << >>
    /\ fired
    /\ ~renderDue
    /\ forecastInputs = lastRequest.inputs
    /\ PredictionsOf(SnapshotPair)

\* C13: a generate request holds the inputs and adjustments the hook returned when
\* generateForecast was invoked, those of the render current then, which are the
\* inputs and adjustments of the state whenever no update awaits a render; no later
\* updateInput, setInputs, updateAdjustment or resetAdjustments changes a pending
\* request, the timer that fires writes the pair of its own invocation to the
\* forecast snapshot, and the render after it computes the predictions from it
C13_CapturedAtInvocation ==
    /\ [](~renderDue => bound = LivePair)
    /\ [][ /\ (Len(timers') > Len(timers)) => timers' = Append(timers, bound)
           /\ (Len(timers') = Len(timers)) => timers' = timers
           /\ (Len(timers') < Len(timers)) =>
                  /\ timers' = Tail(timers)
                  /\ forecastInputs' = Head(timers).inputs
                  /\ forecastAdjustments' = Head(timers).adjustments
           /\ (predictions' # predictions) =>
                  \A h \in Horizons :
                      \E d \in {day, day'} :
                          predictions'[h] =
                              predictionOnDay(forecastInputs, forecastAdjustments, h, d)
         ]_vars

\* C13 witness: an input was edited between the invocation of a request and the
\* firing of its timer (the edited value is in the later request still pending),
\* and the forecast of the fired request, rendered, holds the value from before
\* the edit
C13_Witness ==
    /\ lastRequest # Null
    /\ lastRequest.overlapped
    /\ Len(timers) = 1
    /\ Head(timers).inputs = lastRequest.inputs
    /\ fired
    /\ forecastInputs # lastRequest.inputs
    /\ ~depsChanged
    /\ predictions # Null
    /\ PredictionsOf(SnapshotPair)
    /\ predictions[1].predicted # predictionOnDay(lastRequest.inputs,
                                       lastRequest.adjustments, 1, day).predicted

\* C14: until the first timeout callback has run, hasForecast is false and
\* predictions, currentPrediction and featureImportance are null, whatever
\* edits, horizon switches, generate requests and renders happened
C14_NothingBeforeFirstFiring ==
    ~fired =>
        /\ ~hasForecast
        /\ forecastInputs = Null
        /\ forecastAdjustments = Null
        /\ predictions = Null
        /\ currentPrediction = Null
        /\ featureImportance = Null

\* C14 witness: a request is pending and has not fired, an input and an
\* adjustment were edited since the request, the horizon was switched and all of
\* it has been rendered
C14_Witness ==
    /\ ~fired
    /\ timers # << >>
    /\ isGenerating
    /\ ~renderDue
    /\ Head(timers).inputs # inputs
    /\ Head(timers).adjustments # adjustments
    /\ activeHorizon = 7
    /\ predictions = Null

\* C15: with timers that fire and renders that run, every pending generate request
\* is followed by a state where hasForecast is true, isGenerating is false and
\* predictions is non-null; a pending request leaves the timers only by firing,
\* oldest first, never by being cancelled, and its callback sets hasForecast and
\* clears isGenerating
C15_RequestEventuallyServed ==
    /\ (timers # << >>) ~> (hasForecast /\ ~isGenerating /\ predictions # Null)
    /\ [][ Len(timers') < Len(timers) =>
               /\ timers' = Tail(timers)
               /\ hasForecast'
               /\ ~isGenerating' ]_vars
    /\ [][ (renderDue /\ ~renderDue' /\ hasForecast) => predictions' # Null ]_vars

\* C15 witness: a request was made before any forecast existed, its timer has
\* fired and the render has run: the forecast of that request is there and
\* nothing is pending
C15_Witness ==
    /\ lastRequest # Null
    /\ ~lastRequest.overlapped
    /\ Cardinality(captured) = 1
    /\ timers = << >>
    /\ ~renderDue
    /\ hasForecast
    /\ ~isGenerating
    /\ predictions # Null
    /\ forecastInputs = lastRequest.inputs

\* sin of an angle given in micro-radians (at most 0.11 rad), in micro units: the
\* series x - x^3/6, whose next term is below 1e-7 on that range
SineSeries(x) == x - ((x \div 100) * (x \div 100) * (x \div 100)) \div 6000000

\* 2 * sin(2 * pi * d / divisor), in micro units
TwiceSineOfDayOver(d, divisor) == 2 * SineSeries((6283185 * d) \div divisor)

\* the seasonal factor of the day, in micro units
SeasonalFactorMicro == Micro(seasonalFactor(day))

\* the part of the value predictTemperature clamps that the day contributes, in
\* micro units: the seasonal term, 0.08 * seasonalFactor
CallSeasonalTerm ==
    Micro(CallUnclamped) - Micro(unclampedPrediction(CallEffective, args.horizon, 0))

\* C16 as stated: the seasonal factor is 2 * sin(2 * pi * d / (7 * 365))
C16_Original ==
    (PredictReturned /\ NoNaNArgs) =>
        /\ Abs(SeasonalFactorMicro - TwiceSineOfDayOver(day, 7 * 365)) <= 3
        /\ Abs(CallSeasonalTerm - RoundDiv(8 * SeasonalFactorMicro, 100)) <= 2

\* C16 amended: the seasonal factor used by predictTemperature is
\* 2 * sin(2 * pi * d / 365) for the day-of-week index d, to 3 millionths, and
\* 0.08 times it is what the day adds to the weighted sum, to 2 millionths
C16_SeasonalFactorOver365 ==
    (PredictReturned /\ NoNaNArgs) =>
        /\ Abs(SeasonalFactorMicro - TwiceSineOfDayOver(day, 365)) <= 3
        /\ Abs(CallSeasonalTerm - RoundDiv(8 * SeasonalFactorMicro, 100)) <= 2

\* C16 witness: a call on a Saturday, where the factor is 0.206 and not 0.0295
C16_Witness ==
    /\ PredictReturned
    /\ NoNaNArgs
    /\ day = 6
    /\ SeasonalFactorMicro > 200000
    /\ CallSeasonalTerm > 16000

\* hundredths of a coefficient times a normalised feature given in micro units
Weighted(coefficient, factor, feature) == (coefficient * factor * feature) \div 100

\* the conditions of the three corrections for conditions i and adjustment a, each
\* comparison made on the numbers the expression of the claim evaluates to
AirWarmerBy5(i, a) ==
    FGt(FSub(FAdd(Hundredths(i.airTemp), Hundredths(a.airTempChange)), Hundredths(i.tempOut)),
        FromInt(5))

AirColderBy5(i, a) ==
    FLt(FSub(FAdd(Hundredths(i.airTemp), Hundredths(a.airTempChange)), Hundredths(i.tempOut)),
        FromInt(-5))

EffDischargeUnder50(i, a) ==
    FLt(FMul(Hundredths(i.discharge), FAdd(FromInt(1), FDivInt(Hundredths(a.dischargeChange), 100))),
        FromInt(50))

EffStorageOver300(i, a) ==
    FGt(FMul(Hundredths(i.storage), FAdd(FromInt(1), FDivInt(Hundredths(a.storageChange), 100))),
        FromInt(300))

\* the reference of steps 1-5 of the prediction: effective conditions,
\* normalised features, the weighted sum for seasonal factor sf and the three
\* conditional corrections, in micro units, in integer arithmetic
ReferencePrediction(i, a, h, sf) ==
    LET decay        == CASE h = 1 -> 100 [] h = 3 -> 85 [] h = 7 -> 70
        effDischarge == i.discharge * (10000 + a.dischargeChange)
        effStorage   == i.storage * (10000 + a.storageChange)
        effAirTemp   == (i.airTemp + a.airTempChange) * 10000
        outflowTemp  == i.tempOut * 10000
        solarN       == (i.solarRad * 10000) \div 800
        dischargeN   == effDischarge \div 200
        storageN     == effStorage \div 500
        windN        == (i.windSpeed * 10000) \div 10
        humidityN    == (i.humidity * 10000) \div 100
        sum          == (((outflowTemp \div 100) * decay) \div 100) * 65
                        + Weighted(15, 1, i.tempIn * 10000)
                        + Weighted(12, 1, effAirTemp)
                        + Weighted(8, 5, solarN)
                        - Weighted(3, 3, dischargeN)
                        + Weighted(2, 2, storageN)
                        - Weighted(4, 2, windN)
                        + Weighted(2, 1, humidityN)
                        + Weighted(8, 1, sf)
        air          == IF AirWarmerBy5(i, a) THEN 150000 * h
                        ELSE IF AirColderBy5(i, a) THEN -(100000 * h)
                        ELSE 0
        solar        == IF i.solarRad > 50000 /\ i.windSpeed < 200
                        THEN (300000 * h) \div 7 ELSE 0
        storage      == IF EffDischargeUnder50(i, a) /\ EffStorageOver300(i, a)
                        THEN 200000 ELSE 0
    IN  sum + air + solar + storage

\* C17: for every call without NaN, the value predictTemperature clamps is the
\* reference of steps 1-5 for the seasonal factor of the day, to 6 millionths
C17_ClampedValueIsReference ==
    (PredictReturned /\ NoNaNArgs) =>
        Abs(Micro(CallUnclamped)
            - ReferencePrediction(args.inputs, args.adjustments, args.horizon,
                                  SeasonalFactorMicro)) <= 6

\* C17 witness: a 7-day call with lowered discharge, raised storage and air temperature
\* in which all three corrections apply and the sum lies inside the clamp range
C17_Witness ==
    /\ PredictReturned
    /\ NoNaNArgs
    /\ args.horizon = 7
    /\ args.adjustments.storageChange > 0
    /\ args.adjustments.dischargeChange < 0
    /\ AirWarmerBy5(args.inputs, args.adjustments)
    /\ args.inputs.solarRad > 50000 /\ args.inputs.windSpeed < 200
    /\ EffDischargeUnder50(args.inputs, args.adjustments)
    /\ EffStorageOver300(args.inputs, args.adjustments)
    /\ FGt(CallUnclamped, FZero) /\ FLt(CallUnclamped, ThirtyFive)
    /\ ret.value.predicted = ToFixed1(CallUnclamped)

\* effectiveAirTemp - outflowTemp of the call as decimals, from its arguments, in
\* hundredths
CallAirTempDiff ==
    args.inputs.airTemp + args.adjustments.airTempChange - args.inputs.tempOut

\* d = effectiveAirTemp - outflowTemp of the call, the number the code compares with
\* 5 and -5
CallAirTempDiffNumber ==
    FSub(FAdd(Hundredths(args.inputs.airTemp), Hundredths(args.adjustments.airTempChange)),
         Hundredths(args.inputs.tempOut))

\* what the value predictTemperature clamps holds beyond the weighted sum and
\* the solar and storage corrections: the air-temperature correction, in micro units
CallAirTempCorrection ==
    Micro(CallUnclamped)
        - Micro(FAdd(FAdd(basePrediction(CallEffective, args.horizon, day),
                          solarCorrection(CallEffective, args.horizon)),
                     storageCorrection(CallEffective)))

\* the correction of the call is amount (micro units), to a millionth
CorrectionIs(amount) == Abs(CallAirTempCorrection - amount) <= 1

\* C18: the air-temperature correction is one of three cases decided on the number
\* d = effectiveAirTemp - outflowTemp with strict comparisons: +0.15 h when d > 5,
\* -0.10 h when d < -5, and nothing when -5 <= d <= 5, d = 5 and d = -5 included; read
\* on the decimals of the call, a difference above 5 gets +0.15 h, one below -5 gets
\* -0.10 h and one strictly between gets nothing
C18_AirTempCorrectionCases ==
    (PredictReturned /\ NoNaNArgs) =>
        LET d == CallAirTempDiffNumber
            correction == CallAirTempCorrection
            Is(amount) == Abs(correction - amount) <= 1
        IN  /\ FGt(d, FromInt(5)) => Is(150000 * args.horizon)
            /\ FLt(d, FromInt(-5)) => Is(-(100000 * args.horizon))
            /\ (FCmp(d, FromInt(5)) <= 0 /\ FCmp(d, FromInt(-5)) >= 0) => Is(0)
            /\ CallAirTempDiff > 500 => Is(150000 * args.horizon)
            /\ CallAirTempDiff < -500 => Is(-(100000 * args.horizon))
            /\ (-500 < CallAirTempDiff /\ CallAirTempDiff < 500) => Is(0)

\* C18 witness: the observed air temperature is within 5 of the outflow
\* temperature, the adjusted one is more than 5 above it, and +0.15 h is applied;
\* and some call has d = 5 and gets no correction
C18_Witness ==
    /\ PredictReturned
    /\ NoNaNArgs
    /\ args.inputs.airTemp - args.inputs.tempOut <= 500
    /\ args.inputs.airTemp - args.inputs.tempOut >= -500
    /\ CallAirTempDiff > 500
    /\ args.horizon = 3
    /\ CorrectionIs(450000)
    /\ \E c \in CallArgs :
          LET d == FSub(FAdd(Hundredths(c.inputs.airTemp), Hundredths(c.adjustments.airTempChange)),
                        Hundredths(c.inputs.tempOut))
          IN  /\ \A k \in InputKeys : ~IsNaN(c.inputs[k])
              /\ FCmp(d, FromInt(5)) = 0
              /\ IsFZero(airTempCorrection(adjustedInputs(c.inputs, c.adjustments), c.horizon))

\* base_h of the uncertainty width, in tenths
UncertaintyBase(h) == CASE h = 1 -> 5 [] h = 3 -> 12 [] h = 7 -> 20

\* the clamped prediction of the call
CallClamped == Clamp(FZero, ThirtyFive, CallUnclamped)

\* base_h + 0.1 * |change| for a clamped prediction of the call
WidthAround(clamped) ==
    FAdd(Tenths(UncertaintyBase(args.horizon)),
         FMul(FAbs(FSub(clamped, Hundredths(args.inputs.tempOut))), Tenths(1)))

\* C19: for inputs without NaN, lowerBound and upperBound are the clamped
\* prediction minus and plus base_h + 0.1 |change| (to one decimal), so that
\* lowerBound <= predictedTemp - base_h and upperBound >= predictedTemp + base_h
C19_BoundsAroundPrediction ==
    (PredictReturned /\ NoNaNArgs) =>
        LET clamped == CallClamped
            width == WidthAround(clamped)
        IN  /\ ret.value.lowerBound = ToFixed1(FSub(clamped, width))
            /\ ret.value.upperBound = ToFixed1(FAdd(clamped, width))
            /\ ret.value.lowerBound <= ret.value.predicted - UncertaintyBase(args.horizon)
            /\ ret.value.upperBound >= ret.value.predicted + UncertaintyBase(args.horizon)

\* C19 witness: the prediction is clamped to 35 and the upper bound lies above 35
C19_Witness ==
    /\ PredictReturned
    /\ NoNaNArgs
    /\ ret.value.predicted = 350
    /\ ret.value.upperBound > 350 + UncertaintyBase(args.horizon)
    /\ ret.value.lowerBound < 350 - UncertaintyBase(args.horizon)

\* C20: the mae of every call, whatever its conditions and adjustments (NaN
\* included), is 0.60, 0.80 or 1.20 for horizon 1, 3 or 7
C20_MaeByHorizon ==
    PredictReturned =>
        ret.value.mae = CASE args.horizon = 1 -> 60
                          [] args.horizon = 3 -> 80
                          [] args.horizon = 7 -> 120

\* C20 witness: a 7-day call with changed conditions and all three adjustments
\* set returns a mae of 1.20
C20_Witness ==
    /\ PredictReturned
    /\ args.horizon = 7
    /\ args.inputs # InitialInputs
    /\ args.adjustments.dischargeChange # 0
    /\ args.adjustments.airTempChange # 0
    /\ args.adjustments.storageChange # 0
    /\ ret.value.mae = 120

\* 1 when the condition holds, else 0
Holds(cond) == IF cond THEN 1 ELSE 0

\* the six bump conditions of the call, from its arguments: the two that compare a
\* computed value compare the number the expression evaluates to, the other four
\* compare a decimal of the call
CallTempDiffOver5 == FGt(FAbs(CallAirTempDiffNumber), FromInt(5))

CallSolarOver500 == args.inputs.solarRad > 50000

CallDischargeUnder50 == EffDischargeUnder50(args.inputs, args.adjustments)

CallDischargeChangeOver20 == Abs(args.adjustments.dischargeChange) > 2000

CallAirTempChangeOver3 == Abs(args.adjustments.airTempChange) > 300

CallStorageChangeOver15 == Abs(args.adjustments.storageChange) > 1500

\* none of the six bump conditions holds for the arguments of the call
NoBumpCondition ==
    /\ ~CallTempDiffOver5
    /\ ~CallSolarOver500
    /\ ~CallDischargeUnder50
    /\ ~CallDischargeChangeOver20
    /\ ~CallAirTempChangeOver3
    /\ ~CallStorageChangeOver15

\* the baseline percentages in the order of the feature names
BaselinePercentages == << 28, 18, 14, 12, 10, 8, 6, 4 >>

\* C21: when none of the six bump conditions holds, calculateFeatureImportance
\* returns the baseline percentages 28, 18, 14, 12, 10, 8, 6, 4 for the eight
\* features in their baseline order, summing to 100
C21_BaselineWhenNoBump ==
    (ImportanceReturned /\ NoNaNArgs /\ NoBumpCondition) =>
        /\ Len(ret.value) = 8
        /\ \A k \in 1..8 :
             /\ ret.value[k].feature = FeatureNames[k]
             /\ ret.value[k].importance = BaselinePercentages[k]
        /\ SumImportance(ret.value) = 100

\* C21 witness: a call with the temperature difference exactly 5, the solar
\* radiation exactly 500, and changes of exactly 20 %, 3 degrees and 15 %
\* returns the baseline
C21_Witness ==
    /\ ImportanceReturned
    /\ NoBumpCondition
    /\ Abs(CallAirTempDiff) = 500
    /\ FCmp(FAbs(CallAirTempDiffNumber), FromInt(5)) = 0
    /\ args.inputs.solarRad = 50000
    /\ Abs(args.adjustments.dischargeChange) = 2000
    /\ Abs(args.adjustments.airTempChange) = 300
    /\ Abs(args.adjustments.storageChange) = 1500
    /\ ret.value[1].importance = 28
    /\ ret.value[8].importance = 4

\* the pre-normalization weight of a feature: its baseline plus the bump of
\* every rule whose condition holds
CumulativeWeight(n) ==
    CASE n = "T_out (t-1)"     -> 28 - 3 * Holds(CallTempDiffOver5)
      [] n = "Air Temperature" -> 18 + 5 * Holds(CallTempDiffOver5)
                                     + 3 * Holds(CallAirTempChangeOver3)
      [] n = "Solar Radiation" -> 14 + 4 * Holds(CallSolarOver500)
      [] n = "Seasonality"     -> 12 - 2 * Holds(CallSolarOver500)
      [] n = "Inflow Temp"     -> 10
      [] n = "Discharge"       -> 8 + 2 * Holds(CallDischargeUnder50)
                                    + 4 * Holds(CallDischargeChangeOver20)
      [] n = "Storage"         -> 6 + 3 * Holds(CallDischargeUnder50)
                                    + 3 * Holds(CallStorageChangeOver15)
      [] n = "Wind Speed"      -> 4

\* the sum of the 8 weights: 100 plus the net bump of every rule that holds
CumulativeTotal ==
    100 + 2 * Holds(CallTempDiffOver5) + 2 * Holds(CallSolarOver500)
        + 5 * Holds(CallDischargeUnder50) + 4 * Holds(CallDischargeChangeOver20)
        + 3 * Holds(CallAirTempChangeOver3) + 3 * Holds(CallStorageChangeOver15)

\* C22: the bump rules are independent and cumulative: every returned
\* importancePercent is round(100 * weight / sum of the 8 weights) for the
\* weight that adds to the baseline the bumps of all rules that hold
C22_CumulativeBumps ==
    (ImportanceReturned /\ NoNaNArgs) =>
        LET total == CumulativeTotal
        IN  \A k \in 1..Len(ret.value) :
                LET w == CumulativeWeight(ret.value[k].feature)
                IN  /\ 2 * total * ret.value[k].importance <= 200 * w + total
                    /\ 200 * w + total < 2 * total * (ret.value[k].importance + 1)

\* C22 witness: both Discharge rules, both Air Temperature rules and both
\* Storage rules hold: the weights are 14, 26 and 12 out of 117 or 119
C22_Witness ==
    /\ ImportanceReturned
    /\ CallTempDiffOver5 /\ CallAirTempChangeOver3
    /\ CallDischargeUnder50 /\ CallDischargeChangeOver20
    /\ CallStorageChangeOver15
    /\ CumulativeWeight("Discharge") = 14
    /\ CumulativeWeight("Air Temperature") = 26
    /\ CumulativeWeight("Storage") = 12
    /\ \E k \in 1..Len(ret.value) :
         /\ ret.value[k].feature = "Air Temperature"
         /\ ret.value[k].importance = (200 * 26 + CumulativeTotal) \div (2 * CumulativeTotal)

\* the result of predictTemperature for the arguments of the call at horizon h
CallAtHorizon(h) == predictTemperature(args.inputs, args.adjustments, h, day)

\* C23: whatever the order of the predictions of the three horizons, for a call
\* without NaN each of the three results satisfies its own contract:
\* predictedTemp in [0, 35] and confidence in [60, 95]
C23_EachHorizonInContract ==
    (PredictReturned /\ NoNaNArgs) =>
        \A h \in Horizons :
            LET atHorizon == IF h = args.horizon THEN ret.value ELSE CallAtHorizon(h)
            IN  /\ atHorizon.predicted \in 0..350
                /\ atHorizon.confidence \in 60..95

\* C23 witness: the 3-day prediction of the call is lower than its 1-day
\* prediction, and for other conditions of the call set (an outflow temperature
\* below zero) the 3-day prediction is higher than the 1-day prediction
C23_Witness ==
    /\ PredictReturned
    /\ NoNaNArgs
    /\ args.horizon = 3
    /\ ret.value.predicted < CallAtHorizon(1).predicted
    /\ CallAtHorizon(1).predicted < 350
    /\ \E c \in TemperatureCalls :
         /\ c.inputs.tempOut = -500
         /\ predictTemperature(c.inputs, ZeroAdjustments, 3, day).predicted
              > predictTemperature(c.inputs, ZeroAdjustments, 1, day).predicted

\* C24: isGenerating is true in exactly the states in which a generate timer
\* is pending. Violated: the callback of the first of two overlapping requests
\* sets isGenerating to false while the timer of the second is still pending
C24_GeneratingIffPending == isGenerating <=> (timers # << >>)

\* the forecast snapshot is present: both halves are non-null
SnapshotPresent == forecastInputs # Null /\ forecastAdjustments # Null

\* one step keeps a forecast that exists: hasForecast stays true and the snapshot stays
ForecastKept == hasForecast => (hasForecast' /\ forecastInputs' # Null /\ forecastAdjustments' # Null)

\* C25: in every state hasForecast is true exactly when forecastInputs and
\* forecastAdjustments are both non-null, and once hasForecast is true no step
\* makes it false or clears either half of the snapshot
C25_ForecastFlagMatchesSnapshot ==
    /\ [](hasForecast <=> SnapshotPresent)
    /\ [](forecastInputs = Null <=> forecastAdjustments = Null)
    /\ [][ForecastKept]_vars

\* a forecast exists, and the adjustments were reset after it was made: the
\* snapshot still holds the adjustments of the request
C25_Witness ==
    /\ hasForecast
    /\ SnapshotPresent
    /\ adjustments = ZeroAdjustments
    /\ forecastAdjustments # ZeroAdjustments
    /\ timers = << >>

\* the confidence of the call before its clamp: line 125 on the unrounded change
CallRoundedConfidence ==
    IntegerOf(roundedConfidence(changeFromOriginal(CallClamped, Hundredths(args.inputs.tempOut)),
                                args.horizon))

\* C26: for inputs without NaN the returned confidence never exceeds 85 - 2 * horizon
\* (83, 79, 71), so it never reaches the upper clamp value 95, and it differs from
\* the rounded value only where the lower clamp 60 acts
C26_ConfidenceBelowHorizonCap ==
    (PredictReturned /\ NoNaNArgs) =>
        LET rounded == CallRoundedConfidence
        IN  /\ ret.value.confidence <= 85 - 2 * args.horizon
            /\ ret.value.confidence < 95
            /\ rounded <= 85 - 2 * args.horizon
            /\ (ret.value.confidence # rounded =>
                    (rounded < 60 /\ ret.value.confidence = 60))

\* a call at horizon 7 whose change is large enough for the lower clamp to act,
\* and the cap is attained by some call of the same horizon
C26_Witness ==
    /\ PredictReturned
    /\ NoNaNArgs
    /\ args.horizon = 7
    /\ CallRoundedConfidence < 60
    /\ ret.value.confidence = 60
    /\ \E c \in CallArgs :
          /\ \A k \in InputKeys : ~IsNaN(c.inputs[k])
          /\ predictTemperature(c.inputs, c.adjustments, 1, day).confidence = 83

\* a step that moves activeHorizon leaves everything else the hook holds as it was,
\* the values of the last render and the prediction it selected included
HorizonSwitchFrame ==
    (activeHorizon' # activeHorizon) =>
        /\ UNCHANGED <<inputs, adjustments, forecastInputs, forecastAdjustments, hasForecast,
                       isGenerating, bound, boundHorizon, memoDeps, predictions,
                       featureImportance,
                       depsChanged, timers>>
        /\ currentPrediction' = currentPrediction

\* the render that binds another activeHorizon binds the one the state holds, and
\* recomputes nothing unless a timeout callback has set the snapshot since the last render
HorizonRenderFrame ==
    (boundHorizon' # boundHorizon) =>
        /\ boundHorizon' = activeHorizon
        /\ UNCHANGED <<activeHorizon, forecastInputs, forecastAdjustments, hasForecast,
                       isGenerating, timers>>
        /\ ~depsChanged => UNCHANGED <<predictions, featureImportance>>

\* the three predictions are those of one captured snapshot, the snapshot the state
\* holds once the render after a callback has run
SameSnapshot ==
    \E c \in captured :
        /\ depsChanged \/ c = SnapshotPair
        /\ PredictionsOf(c)


\* C27: a step that changes activeHorizon changes nothing else (inputs, adjustments,
\* snapshot, hasForecast, isGenerating, the three predictions), and neither does the
\* render that follows it; in every state currentPrediction is predictions[h] for the
\* activeHorizon h the hook returned in its last render, which is the activeHorizon
\* of the state whenever no render is due, null when predictions is null, and the
\* three horizons are computed from the same snapshot
C27_HorizonSwitchOnlySelects ==
    /\ [][HorizonSwitchFrame]_vars
    /\ [][HorizonRenderFrame]_vars
    /\ [](~renderDue => boundHorizon = activeHorizon)
    /\ [](predictions = Null => currentPrediction = Null)
    /\ [](predictions # Null =>
            /\ currentPrediction = predictions[boundHorizon]
            /\ ~renderDue => currentPrediction = predictions[activeHorizon]
            /\ SnapshotPresent
            /\ SameSnapshot)

\* the horizon was switched to 7 after a forecast was made and the render has run:
\* the selected prediction is the one of horizon 7 and differs from the one of
\* horizon 1
C27_Witness ==
    /\ hasForecast
    /\ activeHorizon = 7
    /\ boundHorizon = 7
    /\ ~renderDue
    /\ predictions # Null
    /\ currentPrediction = predictions[7]
    /\ currentPrediction # predictions[1]
    /\ ~isGenerating

\* the call repeated with another air-temperature delta, everything else fixed
CallWithAirTempChange(delta) ==
    predictTemperature(args.inputs, [args.adjustments EXCEPT !.airTempChange = delta],
                       args.horizon, day)

\* the air-temperature correction the call gets with another delta
CorrectionWithAirTempChange(delta) ==
    airTempCorrection(adjustedInputs(args.inputs,
                          [args.adjustments EXCEPT !.airTempChange = delta]), args.horizon)

\* the air-temperature deltas of the calls
AirTempDeltas == {c.adjustments.airTempChange : c \in CallArgs}

\* C28: with the conditions, the horizon, the day and the other two adjustments
\* fixed, a larger airTempChange never gives a lower predicted value, also when
\* the larger delta crosses a +-5 degree correction threshold (a prediction that
\* is NaN is NaN for every delta)
C28_MonotoneInAirTempDelta ==
    PredictReturned =>
        \A delta \in AirTempDeltas \ {args.adjustments.airTempChange} :
            LET other == CallWithAirTempChange(delta).predicted
            IN  /\ IsNaN(other) <=> IsNaN(ret.value.predicted)
                /\ (~IsNaN(other) /\ delta >= args.adjustments.airTempChange)
                      => other >= ret.value.predicted

\* a call without delta and without correction, for which the larger delta
\* crosses the upper threshold and raises the prediction and the smaller delta
\* crosses the lower threshold and lowers it
C28_Witness ==
    /\ PredictReturned
    /\ NoNaNArgs
    /\ args.adjustments.airTempChange = 0
    /\ IsFZero(airTempCorrection(CallEffective, args.horizon))
    /\ \E up \in AirTempDeltas :
          /\ up > 0
          /\ FGt(CorrectionWithAirTempChange(up), FZero)
          /\ CallWithAirTempChange(up).predicted > ret.value.predicted
    /\ \E down \in AirTempDeltas :
          /\ down < 0
          /\ FLt(CorrectionWithAirTempChange(down), FZero)
          /\ CallWithAirTempChange(down).predicted < ret.value.predicted

\* ForecastChart, the "predicted" of forecast point i (0-based) of activeHorizon points:
\* progress = (i + 1) / activeHorizon, tempChange = pred.change * progress,
\* Number((baseTemp + tempChange).toFixed(1)); baseTemp in hundredths, result in tenths
forecastPoint(baseTemp, pred, horizon, i) ==
    LET progress      == FDivInt(FromInt(i + 1), horizon)
        tempChange    == FMul(Tenths(pred.change), progress)
        predictedTemp == FAdd(Hundredths(baseTemp), tempChange)
    IN  ToFixed1(predictedTemp)

\* the point labelled "Day +activeHorizon": the last element of the forecast array
lastForecastPoint(baseTemp, pred, horizon) ==
    forecastPoint(baseTemp, pred, horizon, horizon - 1)

\* C29: the last forecast point of the chart, tempOut of the snapshot plus the
\* change of the prediction of the active horizon rounded to one decimal, equals
\* the predicted value of that prediction. Violated: change is rounded on its
\* own, so with a tempOut of two decimals the sum rounds to another tenth
C29_LastPointIsPrediction ==
    PredictReturned =>
        lastForecastPoint(args.inputs.tempOut, ret.value, args.horizon) = ret.value.predicted

\* the four categories of the table of getCategoryForFeature
Categories == {"temporal", "meteorology", "hydrology", "operations"}

\* the features of the returned entries that carry category c
ReturnedFeaturesOf(c) ==
    {ret.value[k].feature : k \in {j \in DOMAIN ret.value : ret.value[j].category = c}}

\* C30: every entry calculateFeatureImportance returns carries the category fixed
\* for its feature name, one of temporal, meteorology, hydrology and operations;
\* no entry carries the fallback "other"
C30_CategoriesFixedNeverOther ==
    ImportanceReturned =>
        /\ \A k \in DOMAIN ret.value :
              /\ ret.value[k].category \in Categories
              /\ ret.value[k].category # "other"
        /\ ReturnedFeaturesOf("temporal") = {"Seasonality"}
        /\ ReturnedFeaturesOf("hydrology") = {"T_out (t-1)", "Inflow Temp"}
        /\ ReturnedFeaturesOf("meteorology") =
               {"Air Temperature", "Solar Radiation", "Wind Speed"}
        /\ ReturnedFeaturesOf("operations") = {"Discharge", "Storage"}

\* a call whose result is not in the order of the weight table: the entries were
\* re-sorted and each still carries the category of its own name
C30_Witness ==
    /\ ImportanceReturned
    /\ Len(ret.value) = Len(FeatureNames)
    /\ \E k \in DOMAIN ret.value :
          /\ ret.value[k].feature # FeatureNames[k]
          /\ ret.value[k].feature = "Discharge"
          /\ ret.value[k].category = "operations"

====
